---- MODULE Spec2Model ----
(***************************************************************************)
(* Bard (MaveDX/Bard): the media signal acquisition and synchronisation    *)
(* engine.                                                                 *)
(*                                                                         *)
(*  Part 1  the spectrum stream supervisor, src/cava.rs, and its use in    *)
(*          MusicPlayerWindow::new, src/ui.rs:378-408  (SpecCava)          *)
(*  Part 2  the lyric synchroniser, src/lyrics.rs       (SpecLyrics)       *)
(*  Part 3  the waveform extractor, src/waveform.rs     (SpecExtract)      *)
(*  Part 4  the analyzer configuration, src/cava.rs:77-137 (SpecConfig)    *)
(*  Part 5  the palette extractor, src/color_extractor.rs  (SpecColor)     *)
(*  Part 6  the 500 ms update loop: waveform hand-off, palette and lyrics  *)
(*          load, src/ui.rs:1292-1539                   (SpecWave)         *)
(***************************************************************************)
EXTENDS Integers, Sequences, FiniteSets, TLC

(***************************************************************************)
(* Bounds of the model.                                                    *)
(***************************************************************************)
\* largest num_bars handed to CavaVisualizer::new (the UI passes 24)
MaxBars == 2
\* number of bytes the analyzer writes before it stops writing
MaxOut == 4

\* the u8 values the analyzer writes, represented by the least and the greatest
Bytes == {0, 255}
BarCounts == 0..MaxBars

\* the two places that sample the buffer: CavaVisualizer::get_bars and the
\* draw callback's lock-and-clone on the Arc from get_bars_arc
Samplers == {"get_bars", "draw"}

VARIABLES
    \* ---- operating system, as far as cava.rs touches it
    tmpFile,        \* /tmp/bard_cava_<pid>.conf: "absent" | "present"
    proc,           \* the cava child: "none" | "running" | "exited" | "reaped"
    stream,         \* every byte the child has written to its stdout so far
    rd,             \* how many of them the reader thread has consumed
    \* ---- CavaVisualizer
    owner,          \* the Option<CavaVisualizer> of the window and its drop
    num_bars,       \* CavaVisualizer.num_bars
    bars,           \* the Vec<u8> inside Arc<Mutex<..>>
    lock,           \* holder of the Mutex: "free" | "reader" | a sampler
    \* ---- reader thread (cava.rs:37-50)
    rpc,            \* "none" | "read" | "lock" | "copy" | "done"
    buf,            \* its private buffer
    nread,          \* bytes of buf filled by the read_exact in progress
    ci,             \* bytes copied by the copy_from_slice in progress
    \* ---- samplers
    spc,            \* per sampler "idle" | "copy"
    stmp,           \* per sampler the clone under construction
    snap,           \* per sampler the last Vec<u8> returned
    sampled,        \* samplers that have returned a snapshot
    \* ---- results recorded for the properties
    startEnv,       \* the environment the Start call found
    killRes,        \* result of process.kill():   "-" | "ok" | "err"
    waitRes,        \* result of process.wait():   "-" | "ok" | "err"
    removeRes,      \* result of fs::remove_file:  "-" | "ok" | "err"
    readFailed,     \* read_exact has returned Err
    panicked,       \* a panic has unwound the calling thread
    cavaAreaVisible \* the spectrum drawing area is shown

cavaVars == <<tmpFile, proc, stream, rd, owner, num_bars, bars, lock, rpc, buf,
              nread, ci, spc, stmp, snap, sampled, startEnv, killRes, waitRes,
              removeRes, readFailed, panicked, cavaAreaVisible>>

VARIABLES
    \* ---- the playback daemon
    mpdSong,            \* the file current_song() reports, "" when none
    \* ---- control thread state (ui.rs:103-106)
    current_song_file,  \* Rc<RefCell<String>>
    waveform_peaks,     \* Rc<RefCell<Vec<PeakPair>>>
    \* ---- one entry per dispatched extraction (ui.rs:1448-1467)
    jobs                \* channel, 50 ms poll timer and worker thread

VARIABLES
    \* ---- lyrics state of the control thread (ui.rs:104-105, lyrics_box)
    current_lyrics,        \* Rc<RefCell<Option<LRCParser>>>
    current_lyrics_index,  \* Rc<RefCell<Option<usize>>>
    lyrics_active          \* the labels of lyrics_box that carry lyrics-active

lyrVars == <<current_lyrics, current_lyrics_index, lyrics_active>>

VARIABLES
    \* ---- the background palette (ui.rs:97-102, 1470-1492)
    bg_palette,     \* Rc<RefCell<[(f64, f64, f64); 4]>>
    art_idle        \* the idle callbacks not yet run, oldest first

palVars == <<bg_palette, art_idle>>

VARIABLES
    \* ---- seeking on the waveform area (ui.rs:107-108, 916-957)
    is_seeking,         \* Rc<RefCell<bool>>
    waveform_position,  \* Rc<RefCell<f64>>, in thousandths
    seek_sent           \* what the last button release sent to mpd.seek

seekVars == <<is_seeking, waveform_position, seek_sent>>

waveVars ==
    <<mpdSong, current_song_file, waveform_peaks, jobs, lyrVars, palVars,
      seekVars>>

VARIABLES
    \* ---- one call of LRCParser::from_file and of get_current_line
    lrcOpen,        \* File::open(path) succeeds
    lrcFile,        \* the lines of the file, each a sequence of characters
    lrcPc,          \* "idle" | "ready" | "parsed" | "queried"
    lrcResult,      \* what from_file returned
    qTime,          \* the current_time of the query
    qResult         \* what get_current_line returned

lrcVars == <<lrcOpen, lrcFile, lrcPc, lrcResult, qTime, qResult>>

VARIABLES
    \* ---- one call of WaveformData::from_file
    exExists,       \* Path::new(path).exists()
    exDecoder,      \* the ffmpeg run: "not_run" | "spawn_err" | "fail" | "ok"
    exRaw,          \* output.stdout, a sequence of bytes
    exBars,         \* the num_bars argument
    exPc,           \* "idle" | "ready" | "done"
    exResult        \* what from_file returned

exVars == <<exExists, exDecoder, exRaw, exBars, exPc, exResult>>

VARIABLES
    \* ---- one call of CavaVisualizer::create_temp_config
    cfgUser,        \* the lines of ~/.config/cava/config
    cfgRead,        \* the file exists and read_to_string succeeds
    cfgBars,        \* the num_bars argument
    cfgPc,          \* "idle" | "ready" | "done"
    cfgOut,         \* the lines of the generated configuration
    \* ---- the CavaVisualizer values of the processes sharing /tmp
    handles,        \* per handle: process, num_bars, temp_config_path
    tmp_files       \* per temporary path: the text stored there, or NoFile

cfgVars == <<cfgUser, cfgRead, cfgBars, cfgPc, cfgOut, handles, tmp_files>>

VARIABLES
    \* ---- one call of ColorExtractor::extract_palette
    colImage,       \* the pixels of the downsampled image, by row
    colPc,          \* "idle" | "ready" | "done"
    colResult       \* the four corner colors returned

colVars == <<colImage, colPc, colResult>>

vars == <<cavaVars, waveVars, lrcVars, exVars, cfgVars, colVars>>

(***************************************************************************)
(* Helpers                                                                 *)
(***************************************************************************)
\* vec![0u8; n]
Zeros(n) == [i \in 1..n |-> 0]

\* what the environment of a Start call can look like
StartEnvs == [home : BOOLEAN, writable : BOOLEAN, spawnOk : BOOLEAN]

NoEnv == [home |-> FALSE, writable |-> FALSE, spawnOk |-> FALSE]

InitCava ==
    /\ tmpFile = "absent"
    /\ proc = "none"
    /\ stream = <<>>
    /\ rd = 0
    /\ owner = "init"
    /\ num_bars = 0
    /\ bars = <<>>
    /\ lock = "free"
    /\ rpc = "none"
    /\ buf = <<>>
    /\ nread = 0
    /\ ci = 0
    /\ spc = [s \in Samplers |-> "idle"]
    /\ stmp = [s \in Samplers |-> <<>>]
    /\ snap = [s \in Samplers |-> <<>>]
    /\ sampled = {}
    /\ startEnv = NoEnv
    /\ killRes = "-"
    /\ waitRes = "-"
    /\ removeRes = "-"
    /\ readFailed = FALSE
    /\ panicked = FALSE
    /\ cavaAreaVisible = TRUE

(***************************************************************************)
(* CavaVisualizer::new and create_temp_config                              *)
(***************************************************************************)
\* create_temp_config: `HOME` unset returns None before anything is written
\* (line 78), a failed fs::write returns None (line 135), otherwise the file
\* is on disk and its path is returned.
CreateTempConfig(env) ==
    IF ~env.home THEN "none"
    ELSE IF ~env.writable THEN "none"
    ELSE "written"

NewResultExpect(env) ==
    IF CreateTempConfig(env) = "none" THEN "none"
    ELSE IF ~env.spawnOk THEN "panic"
    ELSE "some"

\* CavaVisualizer::new: `?` on create_temp_config (line 21), `.ok()?` on the
\* spawn (line 30), Some(Self{..}) otherwise.
NewResult(env) ==
    IF CreateTempConfig(env) = "none" THEN "none"
    ELSE IF ~env.spawnOk THEN "none"
    ELSE "some"

\* MusicPlayerWindow::new, lines 379-408: the one call of CavaVisualizer::new,
\* with the draw callback connected on Some and the area hidden on None.
Start ==
    /\ owner = "init"
    /\ \E env \in StartEnvs, n \in BarCounts :
         LET res == NewResult(env) IN
         /\ startEnv' = env
         /\ num_bars' = n
         /\ tmpFile' = IF CreateTempConfig(env) = "written" THEN "present" ELSE tmpFile
         /\ proc' = IF res = "some" THEN "running" ELSE proc
         /\ bars' = IF res = "some" THEN Zeros(n) ELSE bars
         /\ buf' = IF res = "some" THEN Zeros(n) ELSE buf
         /\ rpc' = IF res = "some" THEN "read" ELSE rpc
         /\ owner' = IF res = "some" THEN "live" ELSE "failed"
         /\ panicked' = (res = "panic")
         /\ cavaAreaVisible' = (res = "some")
    /\ UNCHANGED <<stream, rd, lock, nread, ci, spc, stmp, snap, sampled,
                   killRes, waitRes, removeRes, readFailed>>
    /\ UNCHANGED <<waveVars, lrcVars, exVars, cfgVars, colVars>>

(***************************************************************************)
(* The analyzer subprocess and the file system                             *)
(***************************************************************************)
\* the child writes one more byte to its stdout pipe
CavaWrite ==
    /\ proc = "running"
    /\ Len(stream) < MaxOut
    /\ \E b \in Bytes : stream' = Append(stream, b)
    /\ UNCHANGED <<tmpFile, proc, rd, owner, num_bars, bars, lock, rpc, buf,
                   nread, ci, spc, stmp, snap, sampled, startEnv, killRes,
                   waitRes, removeRes, readFailed, panicked, cavaAreaVisible>>
    /\ UNCHANGED <<waveVars, lrcVars, exVars, cfgVars, colVars>>

\* the child exits on its own (crash, audio backend gone); it stays a zombie
\* until it is waited for
CavaExit ==
    /\ proc = "running"
    /\ proc' = "exited"
    /\ UNCHANGED <<tmpFile, stream, rd, owner, num_bars, bars, lock, rpc, buf,
                   nread, ci, spc, stmp, snap, sampled, startEnv, killRes,
                   waitRes, removeRes, readFailed, panicked, cavaAreaVisible>>
    /\ UNCHANGED <<waveVars, lrcVars, exVars, cfgVars, colVars>>

\* somebody else removes the file from /tmp (the "file already removed" case)
TmpCleaner ==
    /\ tmpFile = "present"
    /\ tmpFile' = "absent"
    /\ UNCHANGED <<proc, stream, rd, owner, num_bars, bars, lock, rpc, buf,
                   nread, ci, spc, stmp, snap, sampled, startEnv, killRes,
                   waitRes, removeRes, readFailed, panicked, cavaAreaVisible>>
    /\ UNCHANGED <<waveVars, lrcVars, exVars, cfgVars, colVars>>

(***************************************************************************)
(* The reader thread, cava.rs:37-50                                        *)
(***************************************************************************)
\* the aligned num_bars-byte frames among the first `upto` bytes of the stream
FramesIn(upto) ==
    IF num_bars = 0 THEN {<<>>}
    ELSE {SubSeq(stream, k * num_bars + 1, (k + 1) * num_bars) :
              k \in 0..((upto \div num_bars) - 1)}

\* read_exact, one read(2) of the pipe that returns a byte
ReaderReadByte ==
    /\ rpc = "read"
    /\ nread < num_bars
    /\ rd < Len(stream)
    /\ buf' = [buf EXCEPT ![nread + 1] = stream[rd + 1]]
    /\ nread' = nread + 1
    /\ rd' = rd + 1
    /\ UNCHANGED <<tmpFile, proc, stream, owner, num_bars, bars, lock, rpc, ci,
                   spc, stmp, snap, sampled, startEnv, killRes, waitRes,
                   removeRes, readFailed, panicked, cavaAreaVisible>>
    /\ UNCHANGED <<waveVars, lrcVars, exVars, cfgVars, colVars>>

ReadExactShort ==
    /\ nread >= 1 \/ num_bars = 0
    /\ rpc' = "lock"

\* read_exact returns Ok(()) once buf is full (line 42)
ReadExactOk ==
    /\ nread = num_bars
    /\ rpc' = "lock"

ReaderReadComplete ==
    /\ rpc = "read"
    /\ ReadExactOk
    /\ UNCHANGED <<tmpFile, proc, stream, rd, owner, num_bars, bars, lock, buf,
                   nread, ci, spc, stmp, snap, sampled, startEnv, killRes,
                   waitRes, removeRes, readFailed, panicked, cavaAreaVisible>>
    /\ UNCHANGED <<waveVars, lrcVars, exVars, cfgVars, colVars>>

OnReadErrRetry ==
    /\ rpc' = "read"
    /\ nread' = 0
    /\ UNCHANGED <<tmpFile, proc, bars>>

OnReadErrCleanup ==
    /\ rpc' = "done"
    /\ nread' = nread
    /\ bars' = bars
    /\ tmpFile' = "absent"
    /\ proc' = "reaped"

\* Err(_) => break (line 47): the thread ends, nothing else is touched
OnReadErr ==
    /\ rpc' = "done"
    /\ UNCHANGED <<tmpFile, proc, bars, nread>>

\* read_exact meets end of file: the write end is closed (the child has exited
\* or was killed) and the pipe is drained; buf may hold part of a frame
ReaderReadErr ==
    /\ rpc = "read"
    /\ nread < num_bars
    /\ rd = Len(stream)
    /\ proc \in {"exited", "reaped"}
    /\ readFailed' = TRUE
    /\ OnReadErr
    /\ UNCHANGED <<stream, rd, owner, num_bars, lock, buf, ci, spc, stmp, snap,
                   sampled, startEnv, killRes, waitRes, removeRes, panicked,
                   cavaAreaVisible>>
    /\ UNCHANGED <<waveVars, lrcVars, exVars, cfgVars, colVars>>

\* bars_clone.lock() (line 43); the mutex is never poisoned: no holder panics
ReaderLock ==
    /\ rpc = "lock"
    /\ lock = "free"
    /\ lock' = "reader"
    /\ rpc' = "copy"
    /\ ci' = 0
    /\ UNCHANGED <<tmpFile, proc, stream, rd, owner, num_bars, bars, buf, nread,
                   spc, stmp, snap, sampled, startEnv, killRes, waitRes,
                   removeRes, readFailed, panicked, cavaAreaVisible>>
    /\ UNCHANGED <<waveVars, lrcVars, exVars, cfgVars, colVars>>

CopyAppend(dst, src, i) == Append(dst, src[i])

\* byte i of bars.copy_from_slice(&buf) (line 44)
CopyFromSlice(dst, src, i) == [dst EXCEPT ![i] = src[i]]

ReaderCopyByte ==
    /\ rpc = "copy"
    /\ ci < num_bars
    /\ bars' = CopyFromSlice(bars, buf, ci + 1)
    /\ ci' = ci + 1
    /\ UNCHANGED <<tmpFile, proc, stream, rd, owner, num_bars, lock, rpc, buf,
                   nread, spc, stmp, snap, sampled, startEnv, killRes, waitRes,
                   removeRes, readFailed, panicked, cavaAreaVisible>>
    /\ UNCHANGED <<waveVars, lrcVars, exVars, cfgVars, colVars>>

GuardKept == lock

\* the MutexGuard goes out of scope at the end of the `if let` (line 45)
GuardDropped == "free"

\* end of the Ok arm: unlock and go round the loop
ReaderUnlock ==
    /\ rpc = "copy"
    /\ ci = num_bars
    /\ lock' = GuardDropped
    /\ rpc' = "read"
    /\ nread' = 0
    /\ UNCHANGED <<tmpFile, proc, stream, rd, owner, num_bars, bars, buf, ci,
                   spc, stmp, snap, sampled, startEnv, killRes, waitRes,
                   removeRes, readFailed, panicked, cavaAreaVisible>>
    /\ UNCHANGED <<waveVars, lrcVars, exVars, cfgVars, colVars>>

(***************************************************************************)
(* Sample: get_bars (cava.rs:62-64) and the draw callback (ui.rs:388-395)  *)
(***************************************************************************)
\* get_bars borrows the CavaVisualizer; the draw callback owns a clone of the
\* Arc and can run whenever Start succeeded
CanSample(s) ==
    IF s = "get_bars" THEN owner = "live" ELSE rpc # "none"

\* self.bars.lock().unwrap_or_else(|e| e.into_inner())
SampleLock(s) ==
    /\ CanSample(s)
    /\ spc[s] = "idle"
    /\ lock = "free"
    /\ lock' = s
    /\ spc' = [spc EXCEPT ![s] = "copy"]
    /\ stmp' = [stmp EXCEPT ![s] = <<>>]
    /\ UNCHANGED <<tmpFile, proc, stream, rd, owner, num_bars, bars, rpc, buf,
                   nread, ci, snap, sampled, startEnv, killRes, waitRes,
                   removeRes, readFailed, panicked, cavaAreaVisible>>
    /\ UNCHANGED <<waveVars, lrcVars, exVars, cfgVars, colVars>>

\* .clone(), one byte of the Vec at a time, the guard held
SampleCloneByte(s) ==
    /\ spc[s] = "copy"
    /\ Len(stmp[s]) < Len(bars)
    /\ stmp' = [stmp EXCEPT ![s] = Append(@, bars[Len(@) + 1])]
    /\ UNCHANGED <<tmpFile, proc, stream, rd, owner, num_bars, bars, lock, rpc,
                   buf, nread, ci, spc, snap, sampled, startEnv, killRes,
                   waitRes, removeRes, readFailed, panicked, cavaAreaVisible>>
    /\ UNCHANGED <<waveVars, lrcVars, exVars, cfgVars, colVars>>

\* the temporary guard is dropped at the end of the statement and the clone
\* is the value returned
SampleReturn(s) ==
    /\ spc[s] = "copy"
    /\ Len(stmp[s]) = Len(bars)
    /\ snap' = [snap EXCEPT ![s] = stmp[s]]
    /\ sampled' = sampled \cup {s}
    /\ stmp' = [stmp EXCEPT ![s] = <<>>]
    /\ spc' = [spc EXCEPT ![s] = "idle"]
    /\ lock' = "free"
    /\ UNCHANGED <<tmpFile, proc, stream, rd, owner, num_bars, bars, rpc, buf,
                   nread, ci, startEnv, killRes, waitRes, removeRes,
                   readFailed, panicked, cavaAreaVisible>>
    /\ UNCHANGED <<waveVars, lrcVars, exVars, cfgVars, colVars>>

(***************************************************************************)
(* impl Drop for CavaVisualizer, cava.rs:140-148                           *)
(***************************************************************************)
\* Child::kill on a child that already exited: Ok or Err, by platform and
\* library version; on a running child the signal is delivered
KillOutcomes == IF proc = "running" THEN {"ok"} ELSE {"ok", "err"}

\* Child::wait: Ok, or Err when the system has already collected the child
WaitOutcomes == {"ok", "err"}

AfterKillPropagate(res) == IF res = "ok" THEN "drop_wait" ELSE "dropped"

\* `let _ = process.kill();` (line 143): the result is discarded
AfterKill(res) == "drop_wait"

\* self.process.take() is always Some; process.kill()
DropKill ==
    /\ owner = "live"
    /\ spc["get_bars"] = "idle"
    /\ \E res \in KillOutcomes :
         /\ killRes' = res
         /\ owner' = AfterKill(res)
    /\ proc' = IF proc = "running" THEN "exited" ELSE proc
    /\ UNCHANGED <<tmpFile, stream, rd, num_bars, bars, lock, rpc, buf, nread,
                   ci, spc, stmp, snap, sampled, startEnv, waitRes, removeRes,
                   readFailed, panicked, cavaAreaVisible>>
    /\ UNCHANGED <<waveVars, lrcVars, exVars, cfgVars, colVars>>

\* `let _ = process.wait();` (line 144)
DropWait ==
    /\ owner = "drop_wait"
    /\ proc = "exited"
    /\ \E res \in WaitOutcomes : waitRes' = res
    /\ proc' = "reaped"
    /\ owner' = "drop_remove"
    /\ UNCHANGED <<tmpFile, stream, rd, num_bars, bars, lock, rpc, buf, nread,
                   ci, spc, stmp, snap, sampled, startEnv, killRes, removeRes,
                   readFailed, panicked, cavaAreaVisible>>
    /\ UNCHANGED <<waveVars, lrcVars, exVars, cfgVars, colVars>>

RemoveFileSkipped(f) == f

\* std::fs::remove_file on the path
RemoveFile(f) == "absent"

\* `let _ = std::fs::remove_file(&self.temp_config_path);` (line 146)
DropRemove ==
    /\ owner = "drop_remove"
    /\ removeRes' = IF tmpFile = "present" THEN "ok" ELSE "err"
    /\ tmpFile' = RemoveFile(tmpFile)
    /\ owner' = "dropped"
    /\ UNCHANGED <<proc, stream, rd, num_bars, bars, lock, rpc, buf, nread, ci,
                   spc, stmp, snap, sampled, startEnv, killRes, waitRes,
                   readFailed, panicked, cavaAreaVisible>>
    /\ UNCHANGED <<waveVars, lrcVars, exVars, cfgVars, colVars>>

NextCava ==
    \/ Start
    \/ CavaWrite
    \/ CavaExit
    \/ TmpCleaner
    \/ ReaderReadByte
    \/ ReaderReadComplete
    \/ ReaderReadErr
    \/ ReaderLock
    \/ ReaderCopyByte
    \/ ReaderUnlock
    \/ \E s \in Samplers : SampleLock(s)
    \/ \E s \in Samplers : SampleCloneByte(s)
    \/ \E s \in Samplers : SampleReturn(s)
    \/ DropKill
    \/ DropWait
    \/ DropRemove

(***************************************************************************)
(* Part 2: the lyric synchroniser, lyrics.rs                (SpecLyrics)   *)
(*                                                                         *)
(* A line is a sequence of characters.  Times are counted in hundredths of *)
(* a second: the sample lines carry at most two fraction digits, so every  *)
(* timestamp is such a multiple and the f64 sums of the code are exact in  *)
(* their order and equality.                                               *)
(***************************************************************************)
\* cap on the number of lines of a lyric file
MaxLines == 3

Digits == {"0", "1", "2", "3", "4", "5", "6", "7", "8", "9"}

DigitVal(c) ==
    CASE c = "0" -> 0 [] c = "1" -> 1 [] c = "2" -> 2 [] c = "3" -> 3
      [] c = "4" -> 4 [] c = "5" -> 5 [] c = "6" -> 6 [] c = "7" -> 7
      [] c = "8" -> 8 [] c = "9" -> 9

\* a byte sequence that is not UTF-8: BufRead::lines yields Err for the line
InvalidByte == "<FF>"

\* the lines lyric files are made of
Line ==
    [\* the example line
     hello |-> <<"[", "0", "0", ":", "0", "1", ".", "5", "0", "]", "H",
         "e", "l", "l", "o">>,
     \* no tag
     notATag |-> <<"n", "o", "t", " ", "a", " ", "t", "a", "g">>,
     zero |-> <<"[", "0", "0", ":", "0", "0", ".", "0", "0", "]", "a">>,
     two |-> <<"[", "0", "0", ":", "0", "2", ".", "0", "0", "]", "b">>,
     five |-> <<"[", "0", "0", ":", "0", "5", ".", "0", "0", "]", "c">>,
     \* the timestamp of `two` again, text to trim
     twoAgain |-> <<"[", "0", ":", "2", ".", "0", "]", " ", "d", " ">>,
     \* a spacing line
     emptyText |-> <<"[", "0", "0", ":", "0", "3", ".", "0", "0", "]">>,
     \* a tag that is not at the start of the line
     minute |-> <<"x", "[", "0", "1", ":", "0", "0", ".", "5", "]", "y">>,
     \* minutes one above u32::MAX
     badMinutes |-> <<"[", "4", "2", "9", "4", "9", "6", "7", "2", "9",
         "6", ":", "0", "0", ".", "0", "0", "]", "x">>,
     \* a line that cannot be decoded
     undecodable |-> <<"l", InvalidByte>>]

LineSamples == {Line[k] : k \in DOMAIN Line}

\* the first index at or after i that holds no digit: the end of a \d+ run
RECURSIVE DigitRunEnd(_, _)
DigitRunEnd(l, i) ==
    IF i <= Len(l) /\ l[i] \in Digits THEN DigitRunEnd(l, i + 1) ELSE i

NoMatch ==
    [ok |-> FALSE, minutes |-> <<>>, secInt |-> <<>>, secFrac |-> <<>>,
     text |-> <<>>]

\* the regex \[(\d+):(\d+\.\d+)\](.*) tried at position s.  Each \d+ is
\* followed by a character that is no digit, so the greedy run is the only
\* candidate and backtracking adds no match.
MatchAt(l, s) ==
    LET e1 == DigitRunEnd(l, s + 1)
        e2 == DigitRunEnd(l, e1 + 1)
        e3 == DigitRunEnd(l, e2 + 1)
    IN  IF /\ l[s] = "["
           /\ e1 > s + 1 /\ e1 <= Len(l) /\ l[e1] = ":"
           /\ e2 > e1 + 1 /\ e2 <= Len(l) /\ l[e2] = "."
           /\ e3 > e2 + 1 /\ e3 <= Len(l) /\ l[e3] = "]"
        THEN [ok |-> TRUE,
              minutes |-> SubSeq(l, s + 1, e1 - 1),
              secInt |-> SubSeq(l, e1 + 1, e2 - 1),
              secFrac |-> SubSeq(l, e2 + 1, e3 - 1),
              text |-> SubSeq(l, e3 + 1, Len(l))]
        ELSE NoMatch

RECURSIVE FindMatch(_, _)
FindMatch(l, s) ==
    IF s > Len(l) THEN NoMatch
    ELSE IF MatchAt(l, s).ok THEN MatchAt(l, s)
    ELSE FindMatch(l, s + 1)

\* time_regex.captures(&line): the leftmost match (line 26)
Captures(l) == FindMatch(l, 1)

RECURSIVE StripZeros(_)
StripZeros(ds) ==
    IF Len(ds) > 1 /\ ds[1] = "0" THEN StripZeros(Tail(ds)) ELSE ds

RECURSIVE DecVal(_)
DecVal(ds) ==
    IF ds = <<>> THEN 0
    ELSE DecVal(SubSeq(ds, 1, Len(ds) - 1)) * 10 + DigitVal(ds[Len(ds)])

\* u32::MAX = 4294967295, digit by digit
U32MaxDigits == <<"4", "2", "9", "4", "9", "6", "7", "2", "9", "5">>

\* a > b for digit strings of one length
RECURSIVE DigitsGreater(_, _)
DigitsGreater(a, b) ==
    IF a = <<>> THEN FALSE
    ELSE IF DigitVal(a[1]) # DigitVal(b[1]) THEN DigitVal(a[1]) > DigitVal(b[1])
    ELSE DigitsGreater(Tail(a), Tail(b))

\* str::parse::<u32> of a \d+ capture (line 27): Err exactly on overflow
ParseU32(ds) ==
    LET sig == StripZeros(ds) IN
    IF \/ Len(sig) > Len(U32MaxDigits)
       \/ Len(sig) = Len(U32MaxDigits) /\ DigitsGreater(sig, U32MaxDigits)
    THEN [ok |-> FALSE, val |-> 0]
    ELSE [ok |-> TRUE, val |-> DecVal(sig)]

\* str::parse::<f64> of a \d+\.\d+ capture (line 28), in hundredths; it
\* accepts every such string
ParseSeconds(intDs, fracDs) ==
    DecVal(intDs) * 100 + DigitVal(fracDs[1]) * 10
        + (IF Len(fracDs) >= 2 THEN DigitVal(fracDs[2]) ELSE 0)

Whitespace == {" ", "\t"}

RECURSIVE TrimStart(_)
TrimStart(t) ==
    IF t # <<>> /\ t[1] \in Whitespace THEN TrimStart(Tail(t)) ELSE t

RECURSIVE TrimEnd(_)
TrimEnd(t) ==
    IF t # <<>> /\ t[Len(t)] \in Whitespace
    THEN TrimEnd(SubSeq(t, 1, Len(t) - 1)) ELSE t

\* str::trim (line 29)
Trim(t) == TrimEnd(TrimStart(t))

TimestampNoSixty(minutes, seconds) == minutes * 100 + seconds

\* minutes as f64 * 60.0 + seconds (line 31), in hundredths
Timestamp(minutes, seconds) == minutes * 6000 + seconds

NoLine == [timestamp |-> 0, text |-> <<>>]

OnLineErrSkip == [kind |-> "skip", line |-> NoLine]

\* `line.ok()?` (line 24): from_file returns None
OnLineErr == [kind |-> "err", line |-> NoLine]

OnBadNumberSkip == [kind |-> "skip", line |-> NoLine]

\* `.parse().ok()?` (lines 27-28): from_file returns None
OnBadNumber == [kind |-> "err", line |-> NoLine]

\* the body of the `for line in reader.lines()` loop (lines 24-34)
LineStep(l) ==
    IF \E i \in 1..Len(l) : l[i] = InvalidByte THEN OnLineErr
    ELSE LET c == Captures(l) IN
         IF ~c.ok THEN [kind |-> "skip", line |-> NoLine]
         ELSE LET m == ParseU32(c.minutes) IN
              IF ~m.ok THEN OnBadNumber
              ELSE [kind |-> "line",
                    line |-> [timestamp |->
                                  Timestamp(m.val, ParseSeconds(c.secInt, c.secFrac)),
                              text |-> Trim(c.text)]]

NoTrack == [some |-> FALSE, lines |-> <<>>]

RECURSIVE ReadLines(_, _, _)
ReadLines(file, i, acc) ==
    IF i > Len(file) THEN [some |-> TRUE, lines |-> acc]
    ELSE LET r == LineStep(file[i]) IN
         IF r.kind = "err" THEN NoTrack
         ELSE IF r.kind = "skip" THEN ReadLines(file, i + 1, acc)
         ELSE ReadLines(file, i + 1, Append(acc, r.line))

StaysBeforeUnstable(a, x) == a.timestamp < x.timestamp

\* sort_by is stable: an element stays before a later one that compares
\* Less or Equal to it (line 37)
StaysBefore(a, x) == a.timestamp <= x.timestamp

\* x put behind the last element that stays before it
RECURSIVE InsertSorted(_, _)
InsertSorted(sorted, x) ==
    IF sorted = <<>> THEN <<x>>
    ELSE IF StaysBefore(sorted[Len(sorted)], x) THEN Append(sorted, x)
    ELSE Append(InsertSorted(SubSeq(sorted, 1, Len(sorted) - 1), x),
                sorted[Len(sorted)])

\* lines.sort_by(|a, b| a.timestamp.partial_cmp(&b.timestamp).unwrap())
RECURSIVE SortBy(_)
SortBy(ls) ==
    IF ls = <<>> THEN <<>>
    ELSE InsertSorted(SortBy(SubSeq(ls, 1, Len(ls) - 1)), ls[Len(ls)])

\* LRCParser::from_file
FromFile(open, file) ==
    IF ~open THEN NoTrack
    ELSE LET r == ReadLines(file, 1, <<>>) IN
         IF ~r.some THEN NoTrack
         ELSE [some |-> TRUE, lines |-> SortBy(r.lines)]

InIntervalClosed(ts, t, next) == ts <= t /\ t <= next

\* line.timestamp <= current_time && current_time < next_timestamp (line 46)
InInterval(ts, t, next) == ts <= t /\ t < next

NoCurrent == [some |-> FALSE, idx |-> 0, text |-> <<>>]

\* the loop of get_current_line from index i on (i counts from 0)
RECURSIVE Scan(_, _, _)
Scan(lines, t, i) ==
    IF i >= Len(lines) THEN NoCurrent
    ELSE IF i + 1 < Len(lines)
    THEN IF InInterval(lines[i + 1].timestamp, t, lines[i + 2].timestamp)
         THEN [some |-> TRUE, idx |-> i, text |-> lines[i + 1].text]
         ELSE Scan(lines, t, i + 1)
    ELSE IF lines[i + 1].timestamp <= t
         THEN [some |-> TRUE, idx |-> i, text |-> lines[i + 1].text]
         ELSE Scan(lines, t, i + 1)

\* LRCParser::get_current_line
GetCurrentLine(lines, t) == Scan(lines, t, 0)

\* the playback positions asked about, in hundredths of a second
QueryTimes == {-100, 0, 100, 150, 200, 499, 500, 1000}

\* all files of at most MaxLines sample lines
LrcFiles == UNION {[1..n -> LineSamples] : n \in 0..MaxLines}

LrcIdle ==
    /\ lrcOpen = FALSE
    /\ lrcFile = <<>>
    /\ lrcPc = "idle"
    /\ lrcResult = NoTrack
    /\ qTime = 0
    /\ qResult = NoCurrent

(***************************************************************************)
(* Part 3: the waveform extractor, waveform.rs              (SpecExtract)  *)
(*                                                                         *)
(* An f64 of the bucketing is zero or at least 1.0, so its ulp is at least *)
(* 2^-52: it is kept exactly, as an integer part and 52 fraction bits in    *)
(* two limbs of 26 bits, and every operation rounds to nearest, ties to     *)
(* even, at the granularity of the result's exponent.                       *)
(*                                                                          *)
(* A magnitude (an RMS) is kept as its square, the mean square s/c, and a   *)
(* normalised value as the square of the quotient together with the         *)
(* exponent powf applies to it, in tenths: squaring keeps order, 0 and 1.   *)
(* The sample values drawn are small, so two different mean squares are     *)
(* different f64 values as well.                                            *)
(***************************************************************************)
\* cap on the number of whole frames of a drawn decoder output
MaxFrames == 8
\* largest num_bars of a drawn call (the UI passes 70)
MaxWaveBars == 11

\* 2^26, the base of a fraction limb
Limb == 67108864

\* the exponent of powf, in tenths
PowTenths == 18

NoWaveform == [some |-> FALSE, peaks |-> <<>>]

ExIdle ==
    /\ exExists = FALSE
    /\ exDecoder = "idle"
    /\ exRaw = <<>>
    /\ exBars = 0
    /\ exPc = "idle"
    /\ exResult = NoWaveform

\* stereo frames of the decoder output: silence, and left 1 with right -2
FrameKinds == {<<0, 0, 0, 0>>, <<1, 0, 254, 255>>}

\* bytes after the last whole frame
Tails == {<<>>, <<1, 0, 1>>}

RECURSIVE Flatten(_)
Flatten(fs) == IF fs = <<>> THEN <<>> ELSE fs[1] \o Flatten(Tail(fs))

\* n frames that all differ in both channels: left i, right n + i
Ramp(n) == Flatten([i \in 1..n |-> <<i, 0, n + i, 0>>])

\* one frame at full scale: left -32768, right 32767
Loudest == <<0, 128, 255, 127>>

\* the stdout of ffmpeg
Recordings ==
    {Flatten(fs) \o t :
        fs \in UNION {[1..n -> FrameKinds] : n \in 0..MaxFrames}, t \in Tails}
    \cup {Ramp(MaxWaveBars)}
    \cup {Loudest \o t : t \in Tails}

\* what Command::output() gives: an Err, a failure status, or success
DecoderOutcomes == {"spawn_err", "fail", "ok"}

\* i16::from_le_bytes([lo, hi])
FromLeBytes(lo, hi) ==
    LET u == lo + 256 * hi IN IF u >= 32768 THEN u - 65536 ELSE u

UnsignedAbsWrapping(x) == IF x < 0 /\ x > -32768 THEN -x ELSE x

\* i16::unsigned_abs
UnsignedAbs(x) == IF x < 0 THEN -x ELSE x

ZeroF64 == [int |-> 0, hi |-> 0, lo |-> 0]
OneF64 == [int |-> 1, hi |-> 0, lo |-> 0]

\* 2^e for a value with integer part i >= 1: its ulp in units of 2^-52
RECURSIVE UlpUnits(_)
UlpUnits(i) == IF i < 2 THEN 1 ELSE 2 * UlpUnits(i \div 2)

\* round int + (hi * Limb + lo + remNum / remDen) * 2^-52 to the nearest f64, ties
\* to even
RoundF64(int, hi, lo, remNum, remDen) ==
    LET g == UlpUnits(int)
        low == lo % g
        kept == lo - low
        twice == 2 * (low * remDen + remNum)
        up == \/ twice > g * remDen
              \/ twice = g * remDen /\ (kept \div g) % 2 = 1
        lo2 == IF up THEN kept + g ELSE kept
        hi2 == IF lo2 >= Limb THEN hi + 1 ELSE hi
        int2 == IF hi2 >= Limb THEN int + 1 ELSE int
    IN  [int |-> int2, hi |-> hi2 % Limb, lo |-> lo2 % Limb]

\* n as f64 / b as f64
DivF64(n, b) ==
    LET r == n % b
        hi == (r * Limb) \div b
        r1 == (r * Limb) % b
        lo == (r1 * Limb) \div b
        r2 == (r1 * Limb) % b
    IN  RoundF64(n \div b, hi, lo, r2, b)

\* x + y in f64
AddF64(x, y) ==
    LET lo == x.lo + y.lo
        hi == x.hi + y.hi + (lo \div Limb)
    IN  RoundF64(x.int + y.int + (hi \div Limb), hi % Limb, lo % Limb, 0, 1)

FramesPerBarUnclamped(n, b) == DivF64(n, b)

\* (num_frames as f64 / num_bars as f64).max(1.0) (line 52); a quotient
\* below 1.0 has integer part 0
FramesPerBar(n, b) ==
    LET q == DivF64(n, b) IN IF q.int < 1 THEN OneF64 ELSE q

LoopDoneAtEnd(k, b, idx, n) == k = b \/ idx.int >= n

\* `for _ in 0..num_bars` (line 56): the loop runs num_bars times
LoopDone(k, b, idx, n) == k = b

Min(a, b) == IF a < b THEN a ELSE b

\* start and end of every bucket (lines 57-58, 87), from loop round k on
RECURSIVE BucketsFrom(_, _, _, _, _)
BucketsFrom(n, b, k, idx, acc) ==
    IF LoopDone(k, b, idx, n) THEN acc
    ELSE LET next == AddF64(idx, FramesPerBar(n, b)) IN
         BucketsFrom(n, b, k + 1, next,
                     Append(acc, [start |-> idx.int,
                                  end |-> Min(next.int, n)]))

Buckets(n, b) == BucketsFrom(n, b, 0, ZeroF64, <<>>)

\* the sample of frame f at byte ch of the frame (0 left, 2 right) as
\* magnitude (lines 68-71)
Sample(raw, f, ch) ==
    UnsignedAbs(FromLeBytes(raw[4 * f + ch + 1], raw[4 * f + ch + 2]))

\* the inner loop `for f in start..end` (lines 64-76): sum of squares and
\* count
RECURSIVE SumSquares(_, _, _, _)
SumSquares(raw, f, end, ch) ==
    IF f >= end \/ 4 * f + 3 >= Len(raw) THEN [s |-> 0, c |-> 0]
    ELSE LET rest == SumSquares(raw, f + 1, end, ch) IN
         [s |-> Sample(raw, f, ch) * Sample(raw, f, ch) + rest.s,
          c |-> 1 + rest.c]

\* if count > 0.0 { (sum / count).sqrt() } else { 0.0 } (lines 79-80)
Rms(raw, bucket, ch) ==
    LET t == SumSquares(raw, bucket.start, bucket.end, ch) IN
    IF t.c > 0 THEN t ELSE [s |-> 0, c |-> 1]

\* the peaks pushed by the bucket loop
RmsPeaks(raw, b) ==
    LET bs == Buckets(Len(raw) \div 4, b) IN
    [k \in 1..Len(bs) |->
        [left |-> Rms(raw, bs[k], 0), right |-> Rms(raw, bs[k], 2)]]

\* x < y and x <= y for magnitudes
Less(x, y) == x.s * y.c < y.s * x.c
LessEq(x, y) == x.s * y.c <= y.s * x.c

\* all_vals (lines 92-95): every left and right that is > 0.0
AllVals(peaks) ==
    SelectSeq([i \in 1..(2 * Len(peaks)) |->
                  IF i % 2 = 1 THEN peaks[(i + 1) \div 2].left
                  ELSE peaks[i \div 2].right],
              LAMBDA v : v.s > 0)

NormIndexMedian(n) == n \div 2

\* ((all_vals.len() as f64) * 0.95) as usize (line 99); the f64 product
\* truncates to this for every length below 100000
NormIndex(n) == (95 * n) \div 100

NormValLargest(vals) ==
    IF vals = <<>> THEN [s |-> 1, c |-> 1]
    ELSE CHOOSE v \in {vals[i] : i \in 1..Len(vals)} :
            \A i \in 1..Len(vals) : LessEq(vals[i], v)

\* all_vals[idx] after the sort (lines 96-101), or 1.0 (line 103)
NormVal(vals) ==
    IF vals = <<>> THEN [s |-> 1, c |-> 1]
    ELSE LET idx == Min(NormIndex(Len(vals)), Len(vals) - 1) IN
         CHOOSE v \in {vals[i] : i \in 1..Len(vals)} :
            /\ Cardinality({i \in 1..Len(vals) : Less(vals[i], v)}) <= idx
            /\ idx < Cardinality({i \in 1..Len(vals) : LessEq(vals[i], v)})

PowfZero(q) == [num |-> q.num, den |-> q.den, pow |-> 0]

\* x.powf(1.8) (lines 112-113)
Powf(q) == [num |-> q.num, den |-> q.den, pow |-> PowTenths]

\* (p / norm_val).min(1.0).powf(1.8) (lines 109-113)
Normalized(v, norm) ==
    Powf(IF Less(norm, v) THEN [num |-> 1, den |-> 1]
         ELSE [num |-> v.s * norm.c, den |-> v.c * norm.s])

\* lines 90-115
Normalize(peaks) ==
    LET norm == NormVal(AllVals(peaks)) IN
    IF norm.s > 0
    THEN [k \in 1..Len(peaks) |->
             [left |-> Normalized(peaks[k].left, norm),
              right |-> Normalized(peaks[k].right, norm)]]
    ELSE [k \in 1..Len(peaks) |->
             [left |-> [num |-> peaks[k].left.s, den |-> peaks[k].left.c,
                        pow |-> 10],
              right |-> [num |-> peaks[k].right.s, den |-> peaks[k].right.c,
                         pow |-> 10]]]

NothingToDoEmptyOnly(raw, b) == raw = <<>>

\* num_frames == 0 || num_bars == 0 (line 48)
NothingToDo(raw, b) == Len(raw) \div 4 = 0 \/ b = 0

\* WaveformData::from_file(path, num_bars)
WaveformFromFile(exists, decoder, raw, b) ==
    IF ~exists THEN NoWaveform
    ELSE IF decoder = "spawn_err" THEN NoWaveform
    ELSE IF decoder = "fail" \/ raw = <<>> THEN NoWaveform
    ELSE IF NothingToDo(raw, b) THEN NoWaveform
    ELSE [some |-> TRUE, peaks |-> Normalize(RmsPeaks(raw, b))]

(***************************************************************************)
(* Part 4: the analyzer configuration, cava.rs:77-137       (SpecConfig)   *)
(*                                                                         *)
(* A configuration is the sequence of its lines, a line a sequence of      *)
(* characters, as str::lines yields them.  An absent or unreadable user    *)
(* file reads as the empty one (lines 81-85).                              *)
(***************************************************************************)
\* cap on the number of lines of a user configuration
MaxCfgLines == 4

\* the lines user configurations are made of
CfgLine ==
    [general |-> <<"[", "g", "e", "n", "e", "r", "a", "l", "]">>,
     bars |-> <<"b", "a", "r", "s", " ", "=", " ", "1", "0">>,
     barsIndented |-> <<" ", " ", "b", "a", "r", "s", "=", "5", " ">>,
     barWidth |-> <<"b", "a", "r", "_", "w", "i", "d", "t", "h", " ", "=",
         " ", "2">>,
     output |-> <<"[", "o", "u", "t", "p", "u", "t", "]">>,
     outputIndented |-> <<" ", "[", "o", "u", "t", "p", "u", "t", "]", " ">>,
     method |-> <<"m", "e", "t", "h", "o", "d", " ", "=", " ", "n", "c",
         "u", "r", "s", "e", "s">>,
     channels |-> <<"c", "h", "a", "n", "n", "e", "l", "s", " ", "=", " ",
         "m", "o", "n", "o">>,
     color |-> <<"[", "c", "o", "l", "o", "r", "]">>,
     blank |-> <<>>]

\* the lines of the override block (lines 122-133)
OverrideLine ==
    [blank |-> <<>>,
     general |-> <<"[", "g", "e", "n", "e", "r", "a", "l", "]">>,
     bars |-> <<"b", "a", "r", "s", " ", "=", " ">>,
     output |-> <<"[", "o", "u", "t", "p", "u", "t", "]">>,
     method |-> <<"m", "e", "t", "h", "o", "d", " ", "=", " ", "r", "a",
         "w">>,
     target |-> <<"r", "a", "w", "_", "t", "a", "r", "g", "e", "t", " ",
         "=", " ", "/", "d", "e", "v", "/", "s", "t", "d", "o", "u", "t">>,
     format |-> <<"d", "a", "t", "a", "_", "f", "o", "r", "m", "a", "t",
         " ", "=", " ", "b", "i", "n", "a", "r", "y">>,
     bits |-> <<"b", "i", "t", "_", "f", "o", "r", "m", "a", "t", " ", "=",
         " ", "8", "b", "i", "t">>,
     channels |-> <<"c", "h", "a", "n", "n", "e", "l", "s", " ", "=", " ",
         "m", "o", "n", "o">>]

\* format!("{}", num_bars)
RECURSIVE Decimal(_)
Decimal(n) ==
    LET d == <<"0", "1", "2", "3", "4", "5", "6", "7", "8", "9">>[(n % 10) + 1]
    IN  IF n < 10 THEN <<d>> ELSE Append(Decimal(n \div 10), d)

\* the text appended by config.push_str(&format!(..)) (lines 121-133)
Override(n) ==
    <<OverrideLine.blank, OverrideLine.general,
      OverrideLine.bars \o Decimal(n), OverrideLine.blank,
      OverrideLine.output, OverrideLine.method, OverrideLine.target,
      OverrideLine.format, OverrideLine.bits, OverrideLine.channels>>

\* trimmed.starts_with('[') (line 98)
IsHeader(line) == Trim(line) # <<>> /\ Trim(line)[1] = "["

IsOutputHeaderUntrimmed(line) == line = OverrideLine.output

\* trimmed == "[output]" (line 99)
IsOutputHeader(line) == Trim(line) = OverrideLine.output

IsBarsSettingNever(line) == FALSE

\* trimmed.starts_with("bars") && trimmed.contains('=') (line 112)
IsBarsSetting(line) ==
    LET t == Trim(line) IN
    /\ Len(t) >= 4
    /\ SubSeq(t, 1, 4) = <<"b", "a", "r", "s">>
    /\ \E i \in 1..Len(t) : t[i] = "="

\* the loop `for line in user_config.lines()` (lines 94-118) from line i on
RECURSIVE CopyLines(_, _, _, _)
CopyLines(user, i, skip_section, config) ==
    IF i > Len(user) THEN config
    ELSE IF IsHeader(user[i])
    THEN CopyLines(user, i + 1, IsOutputHeader(user[i]),
                   IF IsOutputHeader(user[i]) THEN config
                   ELSE Append(config, user[i]))
    ELSE IF skip_section \/ IsBarsSetting(user[i])
    THEN CopyLines(user, i + 1, skip_section, config)
    ELSE CopyLines(user, i + 1, skip_section, Append(config, user[i]))

\* the text create_temp_config writes (lines 81-133)
TempConfig(read, user, n) ==
    CopyLines(IF read THEN user ELSE <<>>, 1, FALSE, <<>>) \o Override(n)

\* cap on the number of CavaVisualizer values constructed
MaxHandles == 2

\* the processes constructing them (std::process::id(), line 87)
Pids == {"bard", "other"}

\* the num_bars arguments of CavaVisualizer::new
HandleBars == {MaxBars, 24}

\* format!("/tmp/bard_cava_{}.conf", std::process::id()) (line 87)
TempPath(pid) == <<"/tmp/bard_cava_", pid, ".conf">>

TempPaths == {TempPath(pid) : pid \in Pids}

\* no file at a path
NoFile == <<"absent">>

\* a CavaVisualizer not constructed yet
NoHandle == [state |-> "none", pid |-> "", process |-> FALSE, num_bars |-> 0,
             temp_config_path |-> <<>>]

NoHandles ==
    /\ handles = [h \in 1..MaxHandles |-> NoHandle]
    /\ tmp_files = [path \in TempPaths |-> NoFile]

CfgIdle ==
    /\ cfgUser = <<>>
    /\ cfgRead = FALSE
    /\ cfgBars = 0
    /\ cfgPc = "idle"
    /\ cfgOut = <<>>
    /\ NoHandles

(***************************************************************************)
(* Part 5: the palette extractor, color_extractor.rs        (SpecColor)    *)
(*                                                                         *)
(* An image is the sequence of its rows, a pixel its r, g, b bytes.  A     *)
(* color is kept as three integers: in 255ths of the f64 channel where it  *)
(* is a pixel average, in 2550ths behind hsv_to_rgb and in 255000ths       *)
(* (ColorUnit) behind darken, with amounts in tenths and factors in        *)
(* hundredths.  The integers are the real-number results: the f64 results  *)
(* of the code lie within 1e-15 of them.                                   *)
(***************************************************************************)
\* cap on width and height of the downsampled image (the code asks for 80)
MaxSide == 2

\* 1.0 as a channel of a returned color
ColorUnit == 255000

\* the pixels images are made of: magenta-red (red largest, blue above
\* green), black, and a green
PixelKinds ==
    {[r |-> 255, g |-> 0, b |-> 128], [r |-> 0, g |-> 0, b |-> 0],
     [r |-> 20, g |-> 200, b |-> 40]}

\* integer division and remainder that truncate toward zero: `as i32`,
\* i32 `/`, and f64 `%` on multiples of one unit
TruncDiv(a, b) == IF a >= 0 THEN a \div b ELSE -((-a) \div b)
TruncRem(a, b) == a - b * TruncDiv(a, b)

\* rgb_to_hsv (lines 135-154) of a color in 255ths: h = 60 * p / d,
\* s = delta / max, v = max / 255
RgbToHsv(c) ==
    LET max == IF c.r >= c.g /\ c.r >= c.b THEN c.r
               ELSE IF c.g >= c.b THEN c.g ELSE c.b
        min == IF c.r <= c.g /\ c.r <= c.b THEN c.r
               ELSE IF c.g <= c.b THEN c.g ELSE c.b
        delta == max - min
    IN  IF delta = 0 THEN [p |-> 0, d |-> 1, delta |-> 0, max |-> max]
        ELSE IF max = c.r
        THEN [p |-> TruncRem(c.g - c.b, 6 * delta), d |-> delta,
              delta |-> delta, max |-> max]
        ELSE IF max = c.g
        THEN [p |-> (c.b - c.r) + 2 * delta, d |-> delta,
              delta |-> delta, max |-> max]
        ELSE [p |-> (c.r - c.g) + 4 * delta, d |-> delta,
              delta |-> delta, max |-> max]

\* hsv_to_rgb (lines 156-171) of h, s * keep / 10, v: the color in 2550ths
HsvToRgb(hsv, keep) ==
    LET c == keep * hsv.delta
        hmod == TruncRem(hsv.p, 2 * hsv.d) - hsv.d
        x == IF hsv.delta = 0 THEN 0
             ELSE keep * (hsv.d - (IF hmod < 0 THEN -hmod ELSE hmod))
        m == 10 * hsv.max - c
        sector == TruncDiv(TruncDiv(60 * hsv.p, hsv.d), 60)
        rgb == CASE sector = 0 -> <<c, x, 0>>
                 [] sector = 1 -> <<x, c, 0>>
                 [] sector = 2 -> <<0, c, x>>
                 [] sector = 3 -> <<0, x, c>>
                 [] sector = 4 -> <<x, 0, c>>
                 [] OTHER -> <<c, 0, x>>
    IN  [r |-> rgb[1] + m, g |-> rgb[2] + m, b |-> rgb[3] + m]

\* RGB::desaturate(amount) (lines 33-38), amount in tenths
Desaturate(c, tenths) == HsvToRgb(RgbToHsv(c), 10 - tenths)

\* RGB::darken(factor) (lines 25-31), factor in hundredths
Darken(c, hundredths) ==
    [r |-> c.r * hundredths, g |-> c.g * hundredths, b |-> c.b * hundredths]

\* RGB::new(0.2, 0.15, 0.2) (line 81)
DefaultColor == [r |-> 51000, g |-> 38250, b |-> 51000]

QuadrantIndexInclusive(px, py, mid_x, mid_y) ==
    IF py <= mid_y THEN (IF px <= mid_x THEN 1 ELSE 2)
    ELSE (IF px <= mid_x THEN 3 ELSE 4)

\* the match on (px < mid_x, py < mid_y) (lines 68-73), counted from 1
QuadrantIndex(px, py, mid_x, mid_y) ==
    IF py < mid_y THEN (IF px < mid_x THEN 1 ELSE 2)
    ELSE (IF px < mid_x THEN 3 ELSE 4)

\* the loop `for pixel in img.pixels()` (lines 63-78) over the first i
\* pixels in row order: sums and count of every quadrant
RECURSIVE Quadrants(_, _)
Quadrants(img, i) ==
    IF i = 0 THEN [q \in 1..4 |-> [r |-> 0, g |-> 0, b |-> 0, n |-> 0]]
    ELSE LET w == Len(img[1])
             px == (i - 1) % w
             py == (i - 1) \div w
             pixel == img[py + 1][px + 1]
             qi == QuadrantIndex(px, py, w \div 2, Len(img) \div 2)
             acc == Quadrants(img, i - 1)
         IN  [acc EXCEPT ![qi] = [r |-> @.r + pixel.r, g |-> @.g + pixel.g,
                                  b |-> @.b + pixel.b, n |-> @.n + 1]]

NoPalette == [some |-> FALSE, palette |-> <<>>, quadrants |-> <<>>]

\* ColorExtractor::extract_palette on the resized image, with the quadrant
\* sums it went through
ExtractPalette(opened, img) ==
    IF ~opened THEN NoPalette
    ELSE IF Len(img) = 0 \/ Len(img[1]) = 0 THEN NoPalette
    ELSE LET qs == Quadrants(img, Len(img) * Len(img[1])) IN
         [some |-> TRUE,
          palette |-> [q \in 1..4 |->
              IF qs[q].n > 0
              THEN Darken(Desaturate([r |-> qs[q].r \div qs[q].n,
                                      g |-> qs[q].g \div qs[q].n,
                                      b |-> qs[q].b \div qs[q].n], 1), 65)
              ELSE DefaultColor],
          quadrants |-> qs]

ColIdle ==
    /\ colImage = <<>>
    /\ colPc = "idle"
    /\ colResult = NoPalette

(***************************************************************************)
(* Part 6: the 500 ms update loop, ui.rs:1292-1539                         *)
(***************************************************************************)
\* cap on the number of extractions dispatched in one run
MaxDispatch == 3

\* bar count asked of WaveformData::from_file (ui.rs:1464)
WaveBars == 70

\* song files of the queue
Files == {"a.flac", "b.flac"}

\* wf_peaks.borrow_mut().clear() / Vec::new()
NoPeaks == [src |-> "", len |-> 0]

\* the series WaveformData::from_file returns for file f
PeaksOf(f) == [src |-> f, len |-> WaveBars]

\* the lyric file `Artist - Title.lrc` of each song (ui.rs:1499)
LrcFileOf(f) ==
    IF f = "a.flac" THEN <<Line.five, Line.zero, Line.two>>
    ELSE <<Line.hello, Line.notATag>>

\* what the load finds at lrc_path: no file, a file that cannot be opened,
\* or a file that is read
LrcLookups == {"missing", "unreadable", "ok"}

\* current_lyrics_index = None
NoIndex == -1

\* status.elapsed of the tick, in hundredths of a second, or no status
NoStatus == -1
StatusInputs == {NoStatus, 0, 200, 500}

\* the artwork find_album_art resolves for each song, downsampled
ArtOf(f) ==
    IF f = "a.flac" THEN <<<<[r |-> 20, g |-> 200, b |-> 40]>>>>
    ELSE <<<<[r |-> 255, g |-> 0, b |-> 128], [r |-> 0, g |-> 0, b |-> 0]>>>>

\* what find_album_art and the image load find for each song: a.flac has
\* artwork that loads; b.flac has none, or a file that does not load
ArtLookups(f) == IF f = "a.flac" THEN {"ok"} ELSE {"none", "unreadable"}

\* the palette the window starts with (ui.rs:97-102), in 255000ths
InitialPalette ==
    <<[r |-> 20400, g |-> 20400, b |-> 25500],
      [r |-> 30600, g |-> 25500, b |-> 35700],
      [r |-> 25500, g |-> 30600, b |-> 20400],
      [r |-> 35700, g |-> 25500, b |-> 30600]>>

\* glib::idle_add_local_once behind `if let Some(art_path)` (ui.rs:1470-1477)
Scheduled(art, f) ==
    IF art = "none" THEN art_idle
    ELSE Append(art_idle, [file |-> f, loads |-> art = "ok"])

\* status.duration of the tick, in hundredths of a second
Totals == {0, 1000}

\* nothing was sent to mpd.seek
NoSeek == [some |-> FALSE, time |-> 0]

\* allocated_width of the waveform area (ui.rs:578), in pixels
AreaWidth == 280

\* event.position().0 of a button or motion event, in pixels
PointerXs == {-10, 70, 300}

\* (event.position().0 / w).clamp(0.0, 1.0) (ui.rs:922-923, 934-935)
PointerPosition(x) ==
    LET pos == (1000 * x) \div AreaWidth
    IN  IF pos < 0 THEN 0 ELSE IF pos > 1000 THEN 1000 ELSE pos

PositionAfterTickAlways(elapsed, total) ==
    IF elapsed # NoStatus /\ total > 0
    THEN (1000 * elapsed) \div total ELSE waveform_position

\* if !*is_seeking && total > 0.0 { *wf_pos = current / total }
\* (ui.rs:1312, 1320-1323)
PositionAfterTick(elapsed, total) ==
    IF elapsed # NoStatus /\ ~is_seeking /\ total > 0
    THEN (1000 * elapsed) \div total ELSE waveform_position

InitWave ==
    /\ mpdSong = ""
    /\ current_song_file = ""
    /\ waveform_peaks = NoPeaks
    /\ jobs = <<>>
    /\ current_lyrics = NoTrack
    /\ current_lyrics_index = NoIndex
    /\ lyrics_active = {}
    /\ bg_palette = InitialPalette
    /\ art_idle = <<>>
    /\ is_seeking = FALSE
    /\ waveform_position = 0
    /\ seek_sent = NoSeek

Init == InitCava /\ InitWave /\ LrcIdle /\ ExIdle /\ CfgIdle /\ ColIdle

\* the daemon moves on to another song, or stops
MpdChangeSong ==
    /\ \E f \in (Files \cup {""}) \ {mpdSong} : mpdSong' = f
    /\ UNCHANGED <<current_song_file, waveform_peaks, jobs, lyrVars, palVars,
                   seekVars>>
    /\ UNCHANGED <<cavaVars, lrcVars, exVars, cfgVars, colVars>>

\* mpsc::channel(), the poll timer and the worker thread of one dispatch
NewJob(f) ==
    [file |-> f, worker |-> "running", chan |-> "empty", tx |-> TRUE,
     poll |-> TRUE]

SyncHighlightClearing(elapsed) ==
    LET cur == GetCurrentLine(current_lyrics.lines, elapsed) IN
    IF elapsed # NoStatus /\ current_lyrics.some
    THEN [index |-> IF cur.some THEN cur.idx ELSE NoIndex,
          active |-> IF cur.some THEN {cur.idx} ELSE {}]
    ELSE [index |-> current_lyrics_index, active |-> lyrics_active]

\* the highlight sync of the tick (ui.rs:1325-1382) at playback position
\* `elapsed`: the index and the set of lyrics-active labels it leaves
SyncHighlight(elapsed) ==
    LET cur == GetCurrentLine(current_lyrics.lines, elapsed) IN
    IF /\ elapsed # NoStatus
       /\ current_lyrics.some
       /\ cur.some
       /\ current_lyrics_index # cur.idx
    THEN [index |-> cur.idx,
          active |-> (lyrics_active \ {current_lyrics_index}) \cup {cur.idx}]
    ELSE [index |-> current_lyrics_index, active |-> lyrics_active]

KeptLyrics == current_lyrics

\* *current_lyrics.borrow_mut() = None (ui.rs:1504), before the lookup
ClearedLyrics == NoTrack

\* lrc_path.exists() and LRCParser::from_file (ui.rs:1508-1509)
LoadLyrics(f, found) ==
    LET lrc == FromFile(found = "ok", LrcFileOf(f)) IN
    IF found # "missing" /\ lrc.some THEN lrc ELSE ClearedLyrics

TrackChangedAnySong(borrowed) == borrowed /\ mpdSong # ""

\* try_borrow_mut, `if let Ok(Some(song))` and
\* `file != *current_song_file` (ui.rs:1293, 1417-1420)
TrackChanged(borrowed) ==
    borrowed /\ mpdSong # "" /\ mpdSong # current_song_file

\* the 500 ms tick (ui.rs:1292) on the status values it gets:
\* try_borrow_mut, the status part with the position update and the
\* highlight sync, current_song, then the track change branch of lines
\* 1420-1538: waveform dispatch, palette callback and lyrics load
TickAt(borrowed, elapsed, total) ==
    /\ IF TrackChanged(borrowed)
       THEN \E found \in LrcLookups, art \in ArtLookups(mpdSong) :
            /\ Len(jobs) < MaxDispatch
            \* the main loop has been idle since the last track change:
            \* ArtIdle never touches what the other actions read
            /\ art_idle = <<>>
            /\ current_song_file' = mpdSong
            /\ waveform_peaks' = NoPeaks
            /\ jobs' = Append(jobs, NewJob(mpdSong))
            /\ art_idle' = Scheduled(art, mpdSong)
            /\ current_lyrics' = LoadLyrics(mpdSong, found)
            /\ current_lyrics_index' = NoIndex
            \* the label of the first line is created lyrics-active
            /\ lyrics_active' =
                   IF current_lyrics'.some /\ current_lyrics'.lines # <<>>
                   THEN {0} ELSE {}
            /\ waveform_position' = PositionAfterTick(elapsed, total)
       ELSE IF borrowed
       THEN /\ UNCHANGED <<current_song_file, waveform_peaks, jobs,
                           current_lyrics, art_idle>>
            /\ current_lyrics_index' = SyncHighlight(elapsed).index
            /\ lyrics_active' = SyncHighlight(elapsed).active
            /\ waveform_position' = PositionAfterTick(elapsed, total)
       ELSE UNCHANGED <<current_song_file, waveform_peaks, jobs,
                        lyrVars, art_idle, waveform_position>>
    /\ UNCHANGED <<mpdSong, bg_palette, is_seeking, seek_sent>>
    /\ UNCHANGED <<cavaVars, lrcVars, exVars, cfgVars, colVars>>

\* the tick on every outcome of try_borrow_mut and status(); without the
\* borrow, or without elapsed and duration, the other values are not read
Tick ==
    \/ TickAt(FALSE, NoStatus, 0)
    \/ TickAt(TRUE, NoStatus, 0)
    \/ \E elapsed \in StatusInputs \ {NoStatus}, total \in Totals :
           TickAt(TRUE, elapsed, total)

\* button-press-event on the waveform area (ui.rs:920-927)
Press(x) ==
    /\ is_seeking' = TRUE
    /\ waveform_position' = PointerPosition(x)
    /\ UNCHANGED <<mpdSong, current_song_file, waveform_peaks, jobs, lyrVars,
                   palVars, seek_sent>>
    /\ UNCHANGED <<cavaVars, lrcVars, exVars, cfgVars, colVars>>

\* motion-notify-event (ui.rs:932-940)
Motion(x) ==
    /\ waveform_position' =
           IF is_seeking THEN PointerPosition(x) ELSE waveform_position
    /\ UNCHANGED <<mpdSong, current_song_file, waveform_peaks, jobs, lyrVars,
                   palVars, is_seeking, seek_sent>>
    /\ UNCHANGED <<cavaVars, lrcVars, exVars, cfgVars, colVars>>

\* button-release-event (ui.rs:945-957): the seek is sent when the client
\* can be borrowed and its status has a duration
Release ==
    /\ is_seeking' = FALSE
    /\ \E borrowed \in BOOLEAN, duration \in Totals \cup {NoStatus} :
         seek_sent' =
             IF borrowed /\ duration # NoStatus
             THEN [some |-> TRUE,
                   time |-> (waveform_position * duration) \div 1000]
             ELSE NoSeek
    /\ UNCHANGED <<mpdSong, current_song_file, waveform_peaks, jobs, lyrVars,
                   palVars, waveform_position>>
    /\ UNCHANGED <<cavaVars, lrcVars, exVars, cfgVars, colVars>>

\* the pending idle callback runs (ui.rs:1477-1491): the pixbuf load, then
\* extract_palette, and the palette is stored when both succeed
ArtIdle ==
    /\ art_idle # <<>>
    /\ LET palette == ExtractPalette(Head(art_idle).loads,
                                     ArtOf(Head(art_idle).file))
       IN  bg_palette' = IF palette.some THEN palette.palette
                         ELSE bg_palette
    /\ art_idle' = Tail(art_idle)
    /\ UNCHANGED <<mpdSong, current_song_file, waveform_peaks, jobs, lyrVars,
                   seekVars>>
    /\ UNCHANGED <<cavaVars, lrcVars, exVars, cfgVars, colVars>>

\* the worker thread: from_file returned Some and tx.send(data.peaks) ran
WorkerSend(j) ==
    /\ jobs[j].worker = "running"
    /\ jobs' = [jobs EXCEPT ![j].worker = "sent", ![j].chan = "full"]
    /\ UNCHANGED <<mpdSong, current_song_file, waveform_peaks, lyrVars, palVars,
                   seekVars>>
    /\ UNCHANGED <<cavaVars, lrcVars, exVars, cfgVars, colVars>>

\* the worker thread ends, after the send or after from_file returned None;
\* its Sender is dropped
WorkerExit(j) ==
    /\ jobs[j].worker \in {"running", "sent"}
    /\ jobs' = [jobs EXCEPT ![j].worker = "exited", ![j].tx = FALSE]
    /\ UNCHANGED <<mpdSong, current_song_file, waveform_peaks, lyrVars, palVars,
                   seekVars>>
    /\ UNCHANGED <<cavaVars, lrcVars, exVars, cfgVars, colVars>>

TryRecvDisconnectFirst(job) ==
    IF ~job.tx THEN "disconnected"
    ELSE IF job.chan = "full" THEN "ok" ELSE "empty"

\* rx.try_recv() (ui.rs:1452): a value that was sent is received even after
\* the Sender is gone
TryRecv(job) ==
    IF job.chan = "full" THEN "ok"
    ELSE IF job.tx THEN "empty" ELSE "disconnected"

\* the 50 ms poll of one dispatch (ui.rs:1451-1461)
Poll(j) ==
    /\ jobs[j].poll
    /\ IF TryRecv(jobs[j]) = "ok"
       THEN \* Ok(peaks): store and stop
            /\ waveform_peaks' = PeaksOf(jobs[j].file)
            /\ jobs' = [jobs EXCEPT ![j].chan = "taken", ![j].poll = FALSE]
       ELSE IF TryRecv(jobs[j]) = "empty"
       THEN \* Err(Empty): Continue
            UNCHANGED <<waveform_peaks, jobs>>
       ELSE \* Err(Disconnected): Break
            /\ jobs' = [jobs EXCEPT ![j].poll = FALSE]
            /\ UNCHANGED waveform_peaks
    /\ UNCHANGED <<mpdSong, current_song_file, lyrVars, palVars, seekVars>>
    /\ UNCHANGED <<cavaVars, lrcVars, exVars, cfgVars, colVars>>

NextWave ==
    \/ MpdChangeSong
    \/ Tick
    \/ ArtIdle
    \/ \E j \in 1..Len(jobs) : WorkerSend(j)
    \/ \E j \in 1..Len(jobs) : WorkerExit(j)
    \/ \E j \in 1..Len(jobs) : Poll(j)

SpecCava == Init /\ [][NextCava]_vars

SpecWave == Init /\ [][NextWave]_vars

\* the update loop alone: what the tick does to the handlers' state,
\* whatever the extraction workers do
NextTick ==
    \/ MpdChangeSong
    \/ Tick
    \/ ArtIdle

SpecTick == Init /\ [][NextTick]_vars

\* the update loop together with the pointer on the waveform area
NextSeek ==
    \/ MpdChangeSong
    \/ Tick
    \/ ArtIdle
    \/ \E x \in PointerXs : Press(x)
    \/ \E x \in PointerXs : Motion(x)
    \/ Release

SpecSeek == Init /\ [][NextSeek]_vars

\* dispatches followed when progress is checked
FairDispatch == MaxDispatch - 1

\* the update loop with its timers running: glib fires the 50 ms timer of a
\* dispatch again and again until its callback returns Break
NextWaveFair ==
    \/ MpdChangeSong
    \/ Tick /\ Len(jobs') <= FairDispatch
    \/ ArtIdle
    \/ \E j \in 1..Len(jobs) : WorkerSend(j)
    \/ \E j \in 1..Len(jobs) : WorkerExit(j)
    \/ \E j \in 1..Len(jobs) : Poll(j)

SpecWaveFair ==
    /\ Init
    /\ [][NextWaveFair]_vars
    /\ \A j \in 1..FairDispatch : WF_vars(j <= Len(jobs) /\ Poll(j))

\* one call of from_file on a drawn file, then get_current_line calls on
\* the track it returned
InitLyrics ==
    /\ InitCava /\ InitWave /\ ExIdle /\ CfgIdle /\ ColIdle
    /\ lrcOpen \in BOOLEAN
    /\ lrcFile \in LrcFiles
    /\ lrcPc = "ready"
    /\ lrcResult = NoTrack
    /\ qTime = 0
    /\ qResult = NoCurrent

Parse ==
    /\ lrcPc = "ready"
    /\ lrcResult' = FromFile(lrcOpen, lrcFile)
    /\ lrcPc' = "parsed"
    /\ UNCHANGED <<lrcOpen, lrcFile, qTime, qResult>>
    /\ UNCHANGED <<cavaVars, waveVars, exVars, cfgVars, colVars>>

Query ==
    /\ lrcPc \in {"parsed", "queried"}
    /\ lrcResult.some
    /\ \E t \in QueryTimes :
         /\ qTime' = t
         /\ qResult' = GetCurrentLine(lrcResult.lines, t)
    /\ lrcPc' = "queried"
    /\ UNCHANGED <<lrcOpen, lrcFile, lrcResult>>
    /\ UNCHANGED <<cavaVars, waveVars, exVars, cfgVars, colVars>>

NextLyrics == Parse \/ Query

SpecLyrics == InitLyrics /\ [][NextLyrics]_vars

\* one call of WaveformData::from_file on a drawn decoder output
InitExtract ==
    /\ InitCava /\ InitWave /\ LrcIdle /\ CfgIdle /\ ColIdle
    /\ exExists = FALSE
    /\ exDecoder = "idle"
    /\ exRaw \in Recordings
    /\ exBars \in 0..MaxWaveBars
    /\ exPc = "ready"
    /\ exResult = NoWaveform

Extract ==
    /\ exPc = "ready"
    /\ \E exists \in BOOLEAN, decoder \in DecoderOutcomes :
         /\ exExists' = exists
         \* ffmpeg is run only behind the exists() test (lines 22-28)
         /\ exDecoder' = IF exists THEN decoder ELSE "not_run"
         /\ exResult' = WaveformFromFile(exists, decoder, exRaw, exBars)
    /\ exPc' = "done"
    /\ UNCHANGED <<exRaw, exBars>>
    /\ UNCHANGED <<cavaVars, waveVars, lrcVars, cfgVars, colVars>>

NextExtract == Extract

SpecExtract == InitExtract /\ [][NextExtract]_vars

\* one call of create_temp_config on a drawn user configuration
InitConfig ==
    /\ InitCava /\ InitWave /\ LrcIdle /\ ExIdle /\ ColIdle
    /\ cfgUser \in UNION {[1..n -> {CfgLine[k] : k \in DOMAIN CfgLine}] :
                              n \in 0..MaxCfgLines}
    /\ cfgRead = FALSE
    /\ cfgBars \in {MaxBars, 24}
    /\ cfgPc = "ready"
    /\ cfgOut = <<>>
    /\ NoHandles

Generate ==
    /\ cfgPc = "ready"
    /\ \E read \in BOOLEAN :
         /\ cfgRead' = read
         /\ cfgOut' = TempConfig(read, cfgUser, cfgBars)
    /\ cfgPc' = "done"
    /\ UNCHANGED <<cfgUser, cfgBars, handles, tmp_files>>
    /\ UNCHANGED <<cavaVars, waveVars, lrcVars, exVars, colVars>>

SpecConfig == InitConfig /\ [][Generate]_vars

\* CavaVisualizer::new in process pid (lines 15-66): create_temp_config
\* writes the configuration to the path of the process, then the analyzer is
\* spawned; a failed write or spawn returns None and constructs nothing
NewHandle(h, pid, n) ==
    /\ handles[h].state = "none"
    /\ \E wrote, spawned \in BOOLEAN :
         /\ tmp_files' = IF wrote
                THEN [tmp_files EXCEPT ![TempPath(pid)] =
                          TempConfig(FALSE, <<>>, n)]
                ELSE tmp_files
         /\ handles' = IF wrote /\ spawned
                THEN [handles EXCEPT ![h] =
                          [state |-> "live", pid |-> pid, process |-> TRUE,
                           num_bars |-> n,
                           temp_config_path |-> TempPath(pid)]]
                ELSE handles
    /\ UNCHANGED <<cfgUser, cfgRead, cfgBars, cfgPc, cfgOut>>
    /\ UNCHANGED <<cavaVars, waveVars, lrcVars, exVars, colVars>>

\* impl Drop for CavaVisualizer (lines 140-148): kill and wait the analyzer,
\* then remove_file(&self.temp_config_path)
DropHandle(h) ==
    /\ handles[h].state = "live"
    /\ handles' = [handles EXCEPT ![h].state = "dropped",
                                  ![h].process = FALSE]
    /\ tmp_files' = [tmp_files EXCEPT ![handles[h].temp_config_path] = NoFile]
    /\ UNCHANGED <<cfgUser, cfgRead, cfgBars, cfgPc, cfgOut>>
    /\ UNCHANGED <<cavaVars, waveVars, lrcVars, exVars, colVars>>

NextHandles ==
    \/ \E h \in 1..MaxHandles, pid \in Pids, n \in HandleBars :
           NewHandle(h, pid, n)
    \/ \E h \in 1..MaxHandles : DropHandle(h)

SpecHandles == Init /\ [][NextHandles]_vars

\* one call of extract_palette on a drawn image
InitColor ==
    /\ InitCava /\ InitWave /\ LrcIdle /\ ExIdle /\ CfgIdle
    /\ colImage \in {<<>>} \cup
           UNION {[1..h -> [1..w -> PixelKinds]] : w, h \in 1..MaxSide}
    /\ colPc = "ready"
    /\ colResult = NoPalette

RunExtractPalette ==
    /\ colPc = "ready"
    /\ \E opened \in BOOLEAN : colResult' = ExtractPalette(opened, colImage)
    /\ colPc' = "done"
    /\ UNCHANGED colImage
    /\ UNCHANGED <<cavaVars, waveVars, lrcVars, exVars, cfgVars>>

SpecColor == InitColor /\ [][RunExtractPalette]_vars

(***************************************************************************)
(* Claims                                                                  *)
(***************************************************************************)

\* C1: a waveform result that was dispatched for another track than the one
\* currently selected never becomes the waveform series: the series is empty
\* or was extracted from current_song_file.
C1_StaleResultDiscarded ==
    waveform_peaks.src \in {"", current_song_file}

\* C2: every snapshot a sampler has returned is the initial all-zero buffer or
\* one complete num_bars-byte frame the reader read; never a mix of two.
C2_SnapshotsAreWholeFrames ==
    \A s \in sampled : snap[s] = Zeros(num_bars) \/ snap[s] \in FramesIn(rd)

\* C2 witness: two different frames were read, and a sampler returned one
C2_Witness ==
    /\ num_bars = MaxBars
    /\ Cardinality(FramesIn(rd)) >= 2
    /\ \E s \in sampled : snap[s] # Zeros(num_bars)

\* C3: once the handle has been dropped the child has been killed and waited
\* for and the temporary configuration file is gone.
C3_ShutdownReleases ==
    owner = "dropped" => (proc = "reaped" /\ tmpFile = "absent")

\* C3 witness: a drop that killed a running child and removed the file
C3_Witness ==
    /\ owner = "dropped"
    /\ killRes = "ok"
    /\ removeRes = "ok"
    /\ readFailed

\* C4: a finished drop has attempted the kill, the wait and the file removal,
\* whatever each of them returned, and nothing has panicked.
C4_BothReleasesAttempted ==
    /\ ~panicked
    /\ owner \in {"drop_wait", "drop_remove", "dropped"} => killRes # "-"
    /\ owner \in {"drop_remove", "dropped"} => waitRes # "-"
    /\ owner = "dropped" => removeRes # "-"

\* C4 witness: a finished drop in which the kill and the removal both failed
C4_Witness ==
    /\ owner = "dropped"
    /\ killRes = "err"
    /\ waitRes = "err"
    /\ removeRes = "err"

\* C5: once Start has returned None, no temporary configuration file written
\* by it is on disk and no subprocess started by it is running.
C5_FailedStartLeavesNothing ==
    owner = "failed" => (tmpFile = "absent" /\ proc = "none")

\* the last complete frame among the bytes the reader consumed, the initial
\* zeros when there is none
LastCompleteFrame ==
    IF num_bars = 0 \/ rd < num_bars THEN Zeros(num_bars)
    ELSE SubSeq(stream, ((rd \div num_bars) - 1) * num_bars + 1,
                (rd \div num_bars) * num_bars)

\* C6: once a read has failed the reader thread has ended, the shared buffer
\* holds the last complete frame, and no later step writes the buffer.
C6_ReaderStopsOnReadFailure ==
    /\ [](readFailed => (rpc = "done" /\ bars = LastCompleteFrame))
    /\ [][readFailed => (readFailed' /\ rpc' = "done" /\ bars' = bars)]_vars

\* C6 witness: the read failed with part of a frame in the private buffer,
\* after a frame other than the zeros had been stored
C6_Witness ==
    /\ readFailed
    /\ nread > 0
    /\ bars # Zeros(num_bars)
    /\ num_bars = MaxBars

\* C7 as stated: after a read error, with the handle still owned, the child
\* is terminated and the temporary configuration file is deleted.
C7_DestroyedOnReadError ==
    (readFailed /\ owner = "live") => (proc # "running" /\ tmpFile = "absent")

\* C7 as amended: a read error only ends the reader thread; the step on which
\* the read fails changes neither the child, the temporary file nor the
\* handle, and the child is not waited for while the handle is owned.
C7_DestroyedOnlyOnDrop ==
    /\ [](owner = "live" => proc \in {"running", "exited"})
    /\ [][(~readFailed /\ readFailed') =>
            (proc' = proc /\ tmpFile' = tmpFile /\ owner' = owner)]_vars

\* C7 witness: the reader has ended on a read error, the handle is owned, the
\* file is on disk and the child has not been waited for
C7_Witness ==
    /\ readFailed
    /\ owner = "live"
    /\ tmpFile = "present"
    /\ proc = "exited"

\* C8: the reader holds the mutex only between a completed read_exact and the
\* end of one copy, never while reading the pipe; whoever holds the mutex has
\* a step to take that waits for nothing.
C8_LockNeverHeldAcrossIO ==
    /\ lock = "reader" =>
         /\ rpc = "copy"
         /\ nread = num_bars
         /\ ENABLED (ReaderCopyByte \/ ReaderUnlock)
    /\ \A s \in Samplers :
         lock = s => ENABLED (SampleCloneByte(s) \/ SampleReturn(s))

\* C8 witness: the reader is inside the copy while the child is silent but
\* running, and a sampler has already taken a snapshot
C8_Witness ==
    /\ lock = "reader"
    /\ ci >= 1
    /\ ci < num_bars
    /\ rd = Len(stream)
    /\ proc = "running"
    /\ sampled # {}

\* C9: from its creation the shared buffer has exactly num_bars entries, and
\* the only step that changes it is the reader's copy under the lock.
C9_BufferLengthFixed ==
    /\ [](rpc # "none" => Len(bars) = num_bars)
    /\ [][(rpc # "none" /\ bars' # bars) =>
            (rpc = "copy" /\ lock = "reader" /\ Len(bars') = Len(bars))]_vars

\* C9 witness: a buffer of the largest length that was written and sampled
C9_Witness ==
    /\ num_bars = MaxBars
    /\ bars # Zeros(num_bars)
    /\ sampled = Samplers

\* C10: when HOME is unset, the file cannot be written or the spawn fails,
\* Start returns None: no panic, no reader thread, no child, the spectrum
\* area hidden.
C10_StartNeverFatal ==
    /\ ~panicked
    /\ (owner # "init" /\ ~(startEnv.home /\ startEnv.writable /\ startEnv.spawnOk))
         => /\ owner = "failed"
            /\ rpc = "none"
            /\ proc = "none"
            /\ ~cavaAreaVisible

\* C10 witness: Start failed at the spawn, after the file was written
C10_Witness ==
    /\ owner = "failed"
    /\ startEnv.home
    /\ startEnv.writable
    /\ ~startEnv.spawnOk

\* the timestamps of a track, in order
Timestamps(lines) == [i \in 1..Len(lines) |-> lines[i].timestamp]

\* C11: on every sorted track, duplicates included, get_current_line at
\* position t returns the greatest index i with timestamp[i] <= t and that
\* line's text, and returns None exactly when the track is empty or t lies
\* before the first timestamp; on [0.0, 2.0, 5.0] it answers 0 at 1.0, 1 at
\* 2.0 and 4.99, 2 at 5.0 and 10.0, and None at -1.0.
C11_CurrentLineIsGreatestReached ==
    lrcPc = "queried" =>
        LET L == lrcResult.lines
            reached == {i \in 0..(Len(L) - 1) : L[i + 1].timestamp <= qTime}
        IN  /\ qResult.some <=> reached # {}
            /\ qResult.some =>
                 /\ qResult.idx \in reached
                 /\ \A i \in reached : i <= qResult.idx
                 /\ qResult.text = L[qResult.idx + 1].text
            /\ Timestamps(L) = <<0, 200, 500>> =>
                 /\ qTime = 100 => qResult.some /\ qResult.idx = 0
                 /\ qTime \in {200, 499} => qResult.some /\ qResult.idx = 1
                 /\ qTime \in {500, 1000} => qResult.some /\ qResult.idx = 2
                 /\ qTime = -100 => ~qResult.some

\* C11 witness: a lookup that lands on the second of two lines sharing a
\* timestamp
C11_Witness ==
    /\ lrcPc = "queried"
    /\ qResult.some
    /\ qResult.idx >= 1
    /\ lrcResult.lines[qResult.idx].timestamp
           = lrcResult.lines[qResult.idx + 1].timestamp
    /\ lrcResult.lines[qResult.idx].timestamp = qTime

\* the lines the loop pushed, in file order
Matched == ReadLines(lrcFile, 1, <<>>).lines

\* C12: the track Parse returns has non-decreasing timestamps and is a
\* permutation of the matched lines in which lines of equal timestamp keep
\* their file order.
C12_SortedStablePermutation ==
    lrcPc # "ready" /\ lrcResult.some =>
        LET L == lrcResult.lines
            n == Len(L)
        IN  /\ \A i \in 1..(n - 1) : L[i].timestamp <= L[i + 1].timestamp
            /\ n = Len(Matched)
            /\ \E pi \in [1..n -> 1..n] :
                 /\ \A i, j \in 1..n : i # j => pi[i] # pi[j]
                 /\ \A i \in 1..n : L[i] = Matched[pi[i]]
                 /\ \A i, j \in 1..n :
                      i < j /\ L[i].timestamp = L[j].timestamp
                          => pi[i] < pi[j]

\* C12 witness: a file whose lines were reordered and which holds two lines
\* of one timestamp and different text
C12_Witness ==
    /\ lrcPc = "parsed"
    /\ lrcResult.some
    /\ lrcResult.lines # Matched
    /\ \E i \in 1..(Len(lrcResult.lines) - 1) :
         /\ lrcResult.lines[i].timestamp = lrcResult.lines[i + 1].timestamp
         /\ lrcResult.lines[i].text # lrcResult.lines[i + 1].text

\* the line cannot be read as UTF-8 text
Unreadable(l) == \E i \in 1..Len(l) : l[i] = InvalidByte

\* the line carries a tag: "[", digits, ":", digits, ".", digits, "]"
HasTag(l) ==
    \E s \in 1..Len(l) :
      /\ l[s] = "["
      /\ \E c \in (s + 2)..Len(l) :
           /\ l[c] = ":"
           /\ \A k \in (s + 1)..(c - 1) : l[k] \in Digits
           /\ \E d \in (c + 2)..Len(l) :
                /\ l[d] = "."
                /\ \A k \in (c + 1)..(d - 1) : l[k] \in Digits
                /\ \E e \in (d + 2)..Len(l) :
                     /\ l[e] = "]"
                     /\ \A k \in (d + 1)..(e - 1) : l[k] \in Digits

\* the line carries a tag whose minutes exceed u32, the one numeric field of
\* a tag whose parse can fail
BadNumber(l) ==
    /\ ~Unreadable(l)
    /\ HasTag(l)
    /\ ~ParseU32(Captures(l).minutes).ok

\* C13 as stated: Parse returns None only if the file cannot be opened or a
\* matched numeric field fails to parse; a line that cannot be read or
\* decoded still leaves Some track.
C13_NoneOnlyOpenOrNumber ==
    lrcPc # "ready" /\ ~lrcResult.some =>
        \/ ~lrcOpen
        \/ \E i \in 1..Len(lrcFile) : BadNumber(lrcFile[i])

\* C13 amended: Parse returns None exactly when the file cannot be opened, a
\* line cannot be read or decoded, or a matched numeric field fails to parse
\* as a number; in every other case it returns Some track.
C13_NoneIffOpenReadOrNumber ==
    lrcPc # "ready" =>
        (~lrcResult.some <=>
            \/ ~lrcOpen
            \/ \E i \in 1..Len(lrcFile) : Unreadable(lrcFile[i])
            \/ \E i \in 1..Len(lrcFile) : BadNumber(lrcFile[i]))

\* C13 witness: an opened file of well-formed lines and one undecodable line
\* was parsed, with None as the result
C13_Witness ==
    /\ lrcPc = "parsed"
    /\ lrcOpen
    /\ ~lrcResult.some
    /\ \E i \in 1..Len(lrcFile) : Unreadable(lrcFile[i])
    /\ \A i \in 1..Len(lrcFile) : ~BadNumber(lrcFile[i])
    /\ \E i \in 1..Len(lrcFile) : HasTag(lrcFile[i])

\* C14: a matching line whose numeric field does not parse makes Parse return
\* None for the whole file, wherever the line stands and whatever the other
\* lines are.
C14_BadNumberFailsWholeFile ==
    lrcPc # "ready" /\ (\E i \in 1..Len(lrcFile) : BadNumber(lrcFile[i]))
        => ~lrcResult.some

\* C14 witness: the file opens and reads, its last line has minutes beyond
\* u32 and well-formed lines stand before it
C14_Witness ==
    /\ lrcPc = "parsed"
    /\ lrcOpen
    /\ Len(lrcFile) = MaxLines
    /\ BadNumber(lrcFile[Len(lrcFile)])
    /\ \A i \in 1..(Len(lrcFile) - 1) :
         HasTag(lrcFile[i]) /\ ~BadNumber(lrcFile[i])
    /\ ~lrcResult.some

\* what each sample line stands for: a line of the track or nothing
ExpectedLine(l) ==
    CASE l = Line.hello -> [timestamp |-> 150, text |-> <<"H", "e", "l", "l", "o">>]
      [] l = Line.zero -> [timestamp |-> 0, text |-> <<"a">>]
      [] l = Line.two -> [timestamp |-> 200, text |-> <<"b">>]
      [] l = Line.five -> [timestamp |-> 500, text |-> <<"c">>]
      [] l = Line.twoAgain -> [timestamp |-> 200, text |-> <<"d">>]
      [] l = Line.emptyText -> [timestamp |-> 300, text |-> <<>>]
      [] l = Line.minute -> [timestamp |-> 6050, text |-> <<"y">>]

\* C15: a successful Parse yields exactly one LyricLine for each line that
\* matches [minutes:seconds.fraction]text, with timestamp minutes*60+seconds
\* and the trimmed, possibly empty text, and nothing for any other line:
\* "[00:01.50]Hello" gives 1.5 and "Hello", "not a tag" gives nothing.
C15_OneLinePerTag ==
    lrcPc # "ready" /\ lrcResult.some =>
        LET L == lrcResult.lines
            tagged == {i \in 1..Len(lrcFile) : HasTag(lrcFile[i])}
        IN  /\ Len(L) = Cardinality(tagged)
            /\ \A i \in 1..Len(lrcFile) :
                 /\ HasTag(lrcFile[i]) <=> lrcFile[i] \notin {Line.notATag}
                 /\ HasTag(lrcFile[i]) =>
                      Cardinality({k \in 1..Len(L) :
                                      L[k] = ExpectedLine(lrcFile[i])})
                        = Cardinality({j \in tagged :
                                          lrcFile[j] = lrcFile[i]})

\* C15 witness: a parsed file holding the example line, a line without a tag
\* and a line with nonzero minutes
C15_Witness ==
    /\ lrcPc = "parsed"
    /\ lrcResult.some
    /\ Len(lrcResult.lines) = 2
    /\ \E i, j, k \in 1..Len(lrcFile) :
         /\ lrcFile[i] = Line.hello
         /\ lrcFile[j] = Line.notATag
         /\ lrcFile[k] = Line.minute

\* C16: after a track change the lyric track of the control thread is absent
\* or the one parsed from the new song's lyric file; the change discards the
\* previous track and the highlighted index before the lookup, so neither
\* remains when the new song has no lyric file or its parse fails.
C16_LyricsFollowTrack ==
    /\ [](current_lyrics.some =>
             /\ current_song_file # ""
             /\ current_lyrics = FromFile(TRUE, LrcFileOf(current_song_file)))
    /\ [][current_song_file' # current_song_file =>
             /\ current_lyrics_index' = NoIndex
             /\ \/ ~current_lyrics'.some
                \/ current_lyrics' = FromFile(TRUE, LrcFileOf(current_song_file'))]_vars

\* C16 witness: a second track change was processed, and the track parsed
\* from the new song's lyric file is in place with no line highlighted yet
C16_Witness ==
    /\ Len(jobs) >= 2
    /\ current_song_file = "b.flac"
    /\ current_lyrics.some
    /\ current_lyrics_index = NoIndex

\* num_frames of the drawn decoder output
NumFrames == Len(exRaw) \div 4

\* C17: every successful Extract returns exactly num_bars entries, whatever
\* the number of decoded frames (fewer than num_bars included); when the
\* frame count is a multiple of num_bars every entry is computed from exactly
\* frames / num_bars frames, bucket k from frame k * frames / num_bars on:
\* 8 frames and 2 bars give 2 entries of 4 frames each.
C17_ExactlyBarCountEntries ==
    exPc = "done" /\ exResult.some =>
        LET bs == Buckets(NumFrames, exBars) IN
        /\ Len(exResult.peaks) = exBars
        /\ Len(bs) = exBars
        /\ NumFrames % exBars = 0 =>
             \A k \in 1..exBars :
                /\ bs[k].start = (k - 1) * (NumFrames \div exBars)
                /\ bs[k].end = k * (NumFrames \div exBars)
                /\ SumSquares(exRaw, bs[k].start, bs[k].end, 0).c
                       = NumFrames \div exBars
        /\ NumFrames = 8 /\ exBars = 2 =>
             bs = <<[start |-> 0, end |-> 4], [start |-> 4, end |-> 8]>>

\* C17 witness: 8 frames were extracted into 2 bars
C17_Witness ==
    /\ exPc = "done"
    /\ exResult.some
    /\ NumFrames = 8
    /\ exBars = 2
    /\ Len(exResult.peaks) = 2

\* C18: for num_frames >= num_bars >= 1 the buckets are contiguous and
\* disjoint, start at frame 0, cover every frame 0..num_frames-1 exactly once
\* and differ in size by at most one frame.
C18_BucketsPartitionFrames ==
    exPc = "done" /\ exResult.some /\ NumFrames >= exBars =>
        LET bs == Buckets(NumFrames, exBars) IN
        /\ bs[1].start = 0
        /\ \A k \in 1..(exBars - 1) : bs[k].end = bs[k + 1].start
        /\ bs[exBars].end = NumFrames
        /\ \A k \in 1..exBars : bs[k].start <= bs[k].end
        /\ \A j, k \in 1..exBars :
             (bs[j].end - bs[j].start) - (bs[k].end - bs[k].start) <= 1

\* the magnitudes of the pool that exceed the normalization reference
Exceeding(vals) == {i \in 1..Len(vals) : Less(NormVal(vals), vals[i])}

\* the value lies in [0.0, 1.0]
InUnit(p) == 0 <= p.num /\ p.num <= p.den /\ p.den > 0 /\ p.pow > 0

\* C19: when at least one magnitude is nonzero, at most 5% by count of the
\* per-channel magnitudes (of the nonzero ones, hence of all of them) exceed
\* the normalization reference, i.e. exceed 1.0 after the division and before
\* the clamp, and every left and right value returned lies in [0.0, 1.0].
C19_ClipsAtMostFivePercent ==
    exPc = "done" /\ exResult.some =>
        LET vals == AllVals(RmsPeaks(exRaw, exBars)) IN
        vals # <<>> =>
            /\ 20 * Cardinality(Exceeding(vals)) <= Len(vals)
            /\ 20 * Cardinality(Exceeding(vals)) <= 2 * exBars
            /\ \A k \in 1..Len(exResult.peaks) :
                 /\ InUnit(exResult.peaks[k].left)
                 /\ InUnit(exResult.peaks[k].right)

\* C19 witness: a magnitude exceeds the reference and is clamped, and another
\* one lies strictly between 0 and 1
C19_Witness ==
    /\ exPc = "done"
    /\ exResult.some
    /\ Exceeding(AllVals(RmsPeaks(exRaw, exBars))) # {}
    /\ \E k \in 1..Len(exResult.peaks) :
         /\ 0 < exResult.peaks[k].left.num
         /\ exResult.peaks[k].left.num < exResult.peaks[k].left.den

\* every sample of every whole frame is zero
Silent == \A i \in 1..(4 * NumFrames) : exRaw[i] = 0

\* the value is exactly 0.0: a zero base under a positive exponent
IsZero(p) == p.num = 0 /\ p.den > 0 /\ p.pow > 0

\* C20: for a silent file (every decoded sample zero, so that the pool is
\* empty) Extract succeeds and every left and right value is exactly 0.
C20_SilenceGivesZeros ==
    /\ exPc = "done"
    /\ exExists /\ exDecoder = "ok"
    /\ NumFrames >= 1 /\ exBars >= 1
    /\ Silent
    => /\ exResult.some
       /\ AllVals(RmsPeaks(exRaw, exBars)) = <<>>
       /\ \A k \in 1..Len(exResult.peaks) :
            IsZero(exResult.peaks[k].left) /\ IsZero(exResult.peaks[k].right)

\* C20 witness: a silent output of MaxFrames frames was extracted into more
\* than one bar
C20_Witness ==
    /\ exPc = "done"
    /\ exExists /\ exDecoder = "ok"
    /\ NumFrames = MaxFrames /\ exBars > 1
    /\ Silent
    /\ exResult.some
    /\ Len(exResult.peaks) = exBars

\* C21: Extract returns None, never an empty or partial series, when the
\* input file does not exist (and then the decoder is not run), when the
\* decoder cannot be run or exits without success, when its output is empty
\* or shorter than one 4-byte frame, and when num_bars is 0.
C21_NoneOnUnusableInput ==
    exPc = "done" =>
        /\ ~exExists => exDecoder = "not_run"
        /\ \/ ~exExists
           \/ exDecoder \in {"spawn_err", "fail"}
           \/ Len(exRaw) < 4
           \/ exBars = 0
           => ~exResult.some /\ exResult.peaks = <<>>
        /\ exResult.some => Len(exResult.peaks) >= 1

\* C21 witness: the file exists and the decoder succeeded with fewer than 4
\* bytes of output, for a positive bar count; the result is None
C21_Witness ==
    /\ exPc = "done"
    /\ exExists /\ exDecoder = "ok"
    /\ exRaw # <<>> /\ Len(exRaw) < 4
    /\ exBars > 0
    /\ ~exResult.some

\* the user configuration as create_temp_config reads it
UserRead == IF cfgRead THEN cfgUser ELSE <<>>

\* line i of the user configuration is the header of its [output] section or
\* lies in it: the last header at or before i is [output]
InUserOutput(i) ==
    LET hs == {h \in 1..i : IsHeader(UserRead[h])} IN
    /\ hs # {}
    /\ Trim(UserRead[CHOOSE h \in hs : \A g \in hs : g <= h])
           = OverrideLine.output

\* the lines of the user configuration at the indices K, in their order
RECURSIVE Restrict(_, _)
Restrict(K, n) ==
    IF n = 0 THEN <<>>
    ELSE IF n \in K THEN Append(Restrict(K, n - 1), UserRead[n])
    ELSE Restrict(K, n - 1)

\* what the generated configuration holds before the override block
Copied == SubSeq(cfgOut, 1, Len(cfgOut) - Len(Override(cfgBars)))

\* C22: for every user configuration the generated one has exactly one
\* [output] section; it is the appended override with method raw, raw_target
\* /dev/stdout, data_format binary, bit_format 8bit and channels mono; and
\* no line of the user's [output] section is carried over: what precedes the
\* override is copied from user lines outside that section only.
C22_OneOutputSection ==
    cfgPc = "done" =>
        LET n == Len(cfgOut)
            outside == {i \in 1..Len(UserRead) : ~InUserOutput(i)}
        IN  /\ n >= 6
            /\ {i \in 1..n : Trim(cfgOut[i]) = OverrideLine.output} = {n - 5}
            /\ SubSeq(cfgOut, n - 5, n)
                  = <<OverrideLine.output, OverrideLine.method,
                      OverrideLine.target, OverrideLine.format,
                      OverrideLine.bits, OverrideLine.channels>>
            /\ \E K \in SUBSET outside : Copied = Restrict(K, Len(UserRead))
            \* a text found only in the user's [output] section, and not
            \* in the override, is nowhere in the generated configuration
            /\ \A i \in 1..Len(UserRead) :
                 /\ InUserOutput(i)
                 /\ \A k \in outside : UserRead[k] # UserRead[i]
                 /\ \A k \in 1..Len(Override(cfgBars)) :
                      Override(cfgBars)[k] # UserRead[i]
                 => \A j \in 1..n : cfgOut[j] # UserRead[i]

\* C22 witness: the user configuration holds an indented [output] header with
\* a setting under it, followed by another section that is copied
C22_Witness ==
    /\ cfgPc = "done"
    /\ cfgRead
    /\ \E i \in 1..(Len(cfgUser) - 2) :
         /\ cfgUser[i] = CfgLine.outputIndented
         /\ cfgUser[i + 1] = CfgLine.method
         /\ cfgUser[i + 2] = CfgLine.color
    /\ Copied # <<>>

InGamut(c) ==
    /\ 0 <= c.r /\ c.r <= ColorUnit
    /\ 0 <= c.g /\ c.g <= ColorUnit
    /\ 0 <= c.b /\ c.b <= ColorUnit

\* C25: each of the four colors extract_palette returns has all three
\* channels in [0.0, 1.0], also where the quadrant average has red as its
\* largest channel and blue above green.
C25_PaletteInGamut ==
    colPc = "done" /\ colResult.some =>
        \A q \in 1..4 : InGamut(colResult.palette[q])

\* the pixels of the image that lie in quadrant q, from 0
PixelsIn(q) ==
    LET w == Len(colImage[1])
        h == Len(colImage)
        left == {x \in 0..(w - 1) : x < w \div 2}
        top == {y \in 0..(h - 1) : y < h \div 2}
        xs == IF q \in {1, 3} THEN left ELSE (0..(w - 1)) \ left
        ys == IF q \in {1, 2} THEN top ELSE (0..(h - 1)) \ top
    IN  xs \X ys

\* C26: every pixel of the downsampled image is counted in exactly one of
\* the four quadrants (top-left x < midX and y < midY, top-right, bottom-left,
\* bottom-right), the four counts sum to width * height, and a quadrant that
\* received no pixel keeps the default color (0.2, 0.15, 0.2).
C26_QuadrantsPartitionPixels ==
    colPc = "done" /\ colResult.some =>
        LET qs == colResult.quadrants IN
        /\ \A q \in 1..4 : qs[q].n = Cardinality(PixelsIn(q))
        /\ qs[1].n + qs[2].n + qs[3].n + qs[4].n
               = Len(colImage) * Len(colImage[1])
        /\ \A q \in 1..4 :
             qs[q].n = 0 => colResult.palette[q] = DefaultColor
        /\ Len(colImage) = 1 \/ Len(colImage[1]) = 1 =>
             \E q \in 1..4 : qs[q].n = 0
        /\ DefaultColor.r * 5 = ColorUnit
        /\ DefaultColor.g * 20 = 3 * ColorUnit
        /\ DefaultColor.b * 5 = ColorUnit

\* C26 witness: an image one pixel high and MaxSide wide: the top quadrants
\* are empty and keep the default, the bottom ones hold pixels
C26_Witness ==
    /\ colPc = "done"
    /\ colResult.some
    /\ Len(colImage) = 1 /\ Len(colImage[1]) = MaxSide
    /\ colResult.quadrants[1].n = 0
    /\ colResult.quadrants[3].n > 0
    /\ colResult.palette[3] # DefaultColor

\* the average color of quadrant q, in 255ths
Average(q) ==
    [r |-> colResult.quadrants[q].r \div colResult.quadrants[q].n,
     g |-> colResult.quadrants[q].g \div colResult.quadrants[q].n,
     b |-> colResult.quadrants[q].b \div colResult.quadrants[q].n]

\* C28: hsv_to_rgb(rgb_to_hsv(r, g, b)) = (r, g, b) for every color, for
\* every ordering of its channels, so that desaturate(0) is the identity.
C28_HsvRoundTrip ==
    colPc = "done" /\ colResult.some =>
        \A q \in 1..4 :
            colResult.quadrants[q].n > 0 =>
                /\ HsvToRgb(RgbToHsv(Average(q)), 10) = Darken(Average(q), 10)
                /\ Desaturate(Average(q), 0) = Darken(Average(q), 10)

\* C24: the palette is replaced wholesale per track: after a track change to
\* a track with no artwork, or whose palette extraction fails, the palette
\* the control thread holds is the default neutral palette, not the palette
\* of the previous track.
C24_PaletteResetPerTrack ==
    /\ art_idle = <<>>
    /\ jobs # <<>>
    /\ current_song_file = "b.flac"
    => bg_palette = InitialPalette

\* C27: within one track's lifetime the waveform series is replaced by a
\* delivered result at most once (the track change empties the series, so
\* every delivery finds it empty), and every state the draw handler can
\* observe holds the empty series or a complete series of 70 values.
C27_ReplacedOncePerTrack ==
    /\ [](waveform_peaks.len \in {0, WaveBars})
    /\ [][(\E j \in 1..Len(jobs) :
              jobs[j].chan = "full" /\ jobs'[j].chan = "taken")
          => waveform_peaks = NoPeaks]_vars

\* the decoder output cut after its last whole frame
WholeFrames == SubSeq(exRaw, 1, 4 * (Len(exRaw) \div 4))

\* the magnitude of the little-endian two's complement 16-bit value lo, hi
Magnitude(lo, hi) ==
    IF lo + 256 * hi >= 32768 THEN 65536 - (lo + 256 * hi) ELSE lo + 256 * hi

\* C29: the decoder output is read as floor(len / 4) frames of two signed
\* 16-bit little-endian samples, left in bytes 0-1 and right in bytes 2-3 of
\* the frame: 1 to 3 trailing bytes never influence the result, no byte past
\* the end of the buffer is read, and the magnitude of -32768 is 32768.
C29_WholeFramesOnly ==
    exPc = "done" /\ exDecoder = "ok" =>
        /\ exResult = WaveformFromFile(TRUE, "ok", WholeFrames, exBars)
        /\ exResult.some =>
             LET bs == Buckets(Len(exRaw) \div 4, exBars) IN
             /\ \A k \in 1..Len(bs) : \A f \in bs[k].start..(bs[k].end - 1) :
                    /\ 4 * f + 4 <= Len(exRaw)
                    /\ Sample(exRaw, f, 0)
                           = Magnitude(exRaw[4 * f + 1], exRaw[4 * f + 2])
                    /\ Sample(exRaw, f, 2)
                           = Magnitude(exRaw[4 * f + 3], exRaw[4 * f + 4])
             /\ SubSeq(exRaw, 1, 2) = <<0, 128>> =>
                    /\ Sample(exRaw, 0, 0) = 32768
                    /\ exResult.peaks[1].left.num = exResult.peaks[1].left.den

\* C29 witness: a result from a full-scale frame followed by three stray
\* bytes
C29_Witness ==
    /\ exPc = "done"
    /\ exResult.some
    /\ Len(exRaw) % 4 = 3
    /\ SubSeq(exRaw, 1, 2) = <<0, 128>>
    /\ Sample(exRaw, 0, 0) = 32768

\* the pool of strictly positive magnitudes of the extraction
Pool == AllVals(RmsPeaks(exRaw, exBars))

\* the outputs that are exactly 1.0
Ones ==
    {k \in 1..Len(exResult.peaks) :
        \/ exResult.peaks[k].left.num = exResult.peaks[k].left.den
        \/ exResult.peaks[k].right.num = exResult.peaks[k].right.den}

\* C30: for a pool of n >= 1 positive magnitudes the normalization reference
\* is the element at index min(floor(0.95 n), n - 1) of the pool sorted
\* ascending: it is an element of the pool and strictly positive, no output
\* is a division by zero, and at least one output value equals 1.0.
C30_ReferenceFromPool ==
    exPc = "done" /\ exResult.some =>
        \A pool \in {Pool} : \A norm \in {NormVal(pool)} :
            LET n == Len(pool)
                idx == IF (95 * n) \div 100 < n - 1 THEN (95 * n) \div 100
                       ELSE n - 1
            IN  n >= 1 =>
                /\ \E i \in 1..n : pool[i] = norm
                /\ norm.s > 0 /\ norm.c > 0
                /\ Cardinality({i \in 1..n : Less(pool[i], norm)}) <= idx
                /\ idx < Cardinality({i \in 1..n : LessEq(pool[i], norm)})
                /\ \A k \in 1..Len(exResult.peaks) :
                       /\ exResult.peaks[k].left.den > 0
                       /\ exResult.peaks[k].right.den > 0
                /\ Ones # {}

\* C30 witness: a pool of 2 * MaxWaveBars distinct magnitudes, whose
\* reference is not its largest element, and an output of 1.0
C30_Witness ==
    /\ exPc = "done"
    /\ exResult.some
    /\ \E pool \in {Pool} :
           /\ Len(pool) = 2 * MaxWaveBars
           /\ \E i \in 1..Len(pool) : Less(NormVal(pool), pool[i])
    /\ Ones # {}

\* C31: with fewer decoded frames N than bars the stride is one frame per
\* bar: each of the first N entries is computed from exactly one frame
\* (entry k from frame k - 1), the remaining entries are computed from no
\* frame and are exactly (0, 0), and no frame index >= N is read.
C31_OneFramePerBar ==
    exPc = "done" /\ exResult.some /\ Len(exRaw) \div 4 < exBars =>
        \A n \in {Len(exRaw) \div 4} : \A bs \in {Buckets(n, exBars)} :
            /\ FramesPerBar(n, exBars) = OneF64
            /\ Len(exResult.peaks) = exBars
            /\ \A k \in 1..n :
                 /\ bs[k] = [start |-> k - 1, end |-> k]
                 /\ SumSquares(exRaw, bs[k].start, bs[k].end, 0).c = 1
                 /\ (exResult.peaks[k].left.num = 0)
                        = (Sample(exRaw, k - 1, 0) = 0)
                 /\ (exResult.peaks[k].right.num = 0)
                        = (Sample(exRaw, k - 1, 2) = 0)
            /\ \A k \in (n + 1)..exBars :
                 /\ bs[k].start >= bs[k].end
                 /\ SumSquares(exRaw, bs[k].start, bs[k].end, 0).c = 0
                 /\ exResult.peaks[k].left.num = 0
                 /\ exResult.peaks[k].right.num = 0
            /\ \A k \in 1..exBars : \A f \in bs[k].start..(bs[k].end - 1) :
                 f < n

\* C31 witness: at least two frames, the first not silent, and at least two
\* bars more than frames
C31_Witness ==
    /\ exPc = "done"
    /\ exResult.some
    /\ Len(exRaw) \div 4 >= 2
    /\ Len(exRaw) \div 4 + 2 <= exBars
    /\ exResult.peaks[1].left.num > 0
    /\ exResult.peaks[exBars].left.num = 0

\* C32: for every dispatched extraction whose worker thread has finished the
\* 50 ms poll timer eventually stops; a poll stops either on a result, which
\* it stores in the same step (a result sent before the worker ended is
\* never lost to the disconnect, and is stored once), or on the disconnect
\* of a worker that sent nothing, leaving the waveform series unchanged.
C32_PollStops ==
    /\ \A j \in 1..FairDispatch :
         (j <= Len(jobs) /\ jobs[j].worker = "exited")
             ~> (j <= Len(jobs) /\ ~jobs[j].poll)
    /\ [](\A j \in 1..Len(jobs) :
             /\ ~jobs[j].poll => jobs[j].chan # "full"
             /\ jobs[j].chan = "taken" => ~jobs[j].poll)
    /\ [][\A j \in 1..Len(jobs) :
             jobs[j].poll /\ ~jobs'[j].poll =>
                 IF jobs[j].chan = "full"
                 THEN /\ jobs'[j].chan = "taken"
                      /\ waveform_peaks' = PeaksOf(jobs[j].file)
                 ELSE /\ jobs[j].worker = "exited"
                      /\ jobs'[j].chan = "empty"
                      /\ waveform_peaks' = waveform_peaks]_vars

\* C32 witness: both polls have stopped, one on the result its worker sent,
\* one on the disconnect of a worker that sent nothing
C32_Witness ==
    /\ Len(jobs) >= 2
    /\ \E j, k \in 1..Len(jobs) :
         /\ jobs[j].worker = "exited" /\ jobs[j].chan = "taken"
         /\ ~jobs[j].poll
         /\ jobs[k].worker = "exited" /\ jobs[k].chan = "empty"
         /\ ~jobs[k].poll

\* C33: if the extraction for the currently selected track fails (its worker
\* ends without sending), the waveform stays absent: the series is empty
\* until the next track change, whatever other extractions are in flight.
C33_FailedStaysAbsent ==
    /\ jobs # <<>>
    /\ jobs[Len(jobs)].worker = "exited"
    /\ jobs[Len(jobs)].chan = "empty"
    => waveform_peaks = NoPeaks

\* what a track change rebuilds: the recorded file, the waveform series and
\* its dispatches, the loaded lyrics, the palette and its idle callbacks
trackVars ==
    <<current_song_file, waveform_peaks, jobs, current_lyrics, palVars>>

\* C34 as stated: a tick dispatches a waveform extraction, a palette
\* extraction and a lyric reload if and only if the current song's file
\* differs from current_song_file, which it updates in the same tick; a tick
\* that observes the recorded file dispatches nothing, and a tick that gets
\* no song changes no state.
C34_DispatchIffFileDiffers ==
    [][Tick =>
          IF mpdSong # "" /\ mpdSong # current_song_file
          THEN /\ current_song_file' = mpdSong
               /\ jobs' = Append(jobs, NewJob(mpdSong))
               /\ Len(art_idle') = Len(art_idle) + 1
               /\ \E found \in LrcLookups :
                      current_lyrics' = LoadLyrics(mpdSong, found)
          ELSE /\ UNCHANGED trackVars
               /\ mpdSong = "" => UNCHANGED vars]_vars

\* C34 as the code has it: the waveform extraction and the lyric reload are
\* dispatched if and only if the file differs, the palette extraction then
\* only when artwork is found; a tick that observes the recorded file, or
\* gets no song, leaves everything a track change rebuilds unchanged (the
\* highlight may still follow the status).
C34_TrackChangeActedOnce ==
    [][Tick =>
          IF mpdSong # "" /\ mpdSong # current_song_file
          THEN /\ current_song_file' = mpdSong
               /\ waveform_peaks' = NoPeaks
               /\ jobs' = Append(jobs, NewJob(mpdSong))
               /\ \E art \in ArtLookups(mpdSong) :
                      art_idle' = Scheduled(art, mpdSong)
               /\ Len(art_idle') = Len(art_idle) + 1
                      \/ art_idle' = art_idle
               /\ \E found \in LrcLookups :
                      current_lyrics' = LoadLyrics(mpdSong, found)
               /\ UNCHANGED bg_palette
          ELSE UNCHANGED trackVars]_vars

\* C34 witness: one track change has been acted on and a later tick on the
\* same file has moved the highlight without dispatching again
C34_Witness ==
    /\ Len(jobs) = 1
    /\ mpdSong = "a.flac"
    /\ current_song_file = mpdSong
    /\ current_lyrics_index # NoIndex

\* C35: at most one lyric line carries the lyrics-active style at any time,
\* after any sequence of lyric loads and playback-position ticks, also when
\* the first tick that yields a current line yields an index other than 0.
C35_OneLineHighlighted == Cardinality(lyrics_active) <= 1

\* the playback positions a tick can get from status()
KnownTimes == StatusInputs \ {NoStatus}

\* what the claim lets a tick at position t leave as highlighted index
IndexFollows(t) ==
    LET cur == GetCurrentLine(current_lyrics.lines, t) IN
    IF cur.some THEN current_lyrics_index' = cur.idx
    ELSE /\ current_lyrics_index' = current_lyrics_index
         /\ current_lyrics_index # NoIndex =>
                current_lyrics_index \in lyrics_active'

\* C36 as stated: after every tick that has lyrics loaded and a known
\* playback position t, the recorded index is Some(i) if get_current_line(t)
\* is Some(i), and is left unchanged if it is None.
C36_IndexFollowsEveryTick ==
    [][\A t \in KnownTimes, total \in Totals :
           current_lyrics.some /\ TickAt(TRUE, t, total) => IndexFollows(t)]_vars

\* C36 for the ticks that do not act on a track change: the recorded index is
\* Some(i) if get_current_line(t) is Some(i), and is left unchanged, with its
\* line still highlighted, if it is None; the tick that acts on a track
\* change leaves the recorded index None.
C36_IndexFollowsPosition ==
    [][\A t \in KnownTimes, total \in Totals :
           current_lyrics.some /\ TickAt(TRUE, t, total) =>
               IF TrackChanged(TRUE) THEN current_lyrics_index' = NoIndex
               ELSE IndexFollows(t)]_vars

\* C36 witness: lyrics whose first line is not at 0 are loaded and a line is
\* recorded as highlighted; a tick at position 0 finds no current line here
C36_Witness ==
    /\ current_lyrics.some
    /\ current_song_file = mpdSong
    /\ current_lyrics_index # NoIndex
    /\ \E t \in KnownTimes :
           ~GetCurrentLine(current_lyrics.lines, t).some

\* C37: while a seek drag is in progress (from button press to button
\* release on the waveform area) the tick never modifies the waveform
\* position, only press and motion events change it, and the position the
\* release sends to the playback client is the one they set last.
C37_DragOwnsPosition ==
    /\ [][is_seeking /\ Tick => waveform_position' = waveform_position]_vars
    /\ [][is_seeking /\ waveform_position' # waveform_position =>
              \E x \in PointerXs :
                  /\ waveform_position' = PointerPosition(x)
                  /\ Press(x) \/ Motion(x)]_vars
    /\ [][is_seeking /\ Release /\ seek_sent'.some =>
              /\ waveform_position \in {PointerPosition(x) : x \in PointerXs}
              /\ \E duration \in Totals :
                     seek_sent'.time = (waveform_position * duration) \div 1000]_vars

\* C37 witness: a drag to a quarter of the area has ended and its position
\* was sent, after ticks had moved the highlight of the loaded lyrics
C37_Witness ==
    /\ ~is_seeking
    /\ waveform_position = PointerPosition(70)
    /\ seek_sent = [some |-> TRUE, time |-> 250]
    /\ current_lyrics_index # NoIndex


\* C38: when two handles of one process are live, dropping one of them leaves
\* the file at the other's temporary configuration path as it was, neither
\* deleted nor rewritten
C38_ReleaseLeavesOthersFile ==
    [][\A h, g \in 1..MaxHandles :
          (/\ DropHandle(h)
           /\ g # h
           /\ handles[g].state = "live"
           /\ handles[g].pid = handles[h].pid)
          => tmp_files'[handles[g].temp_config_path]
                 = tmp_files[handles[g].temp_config_path]]_vars

====
